---- MODULE Spec2Model ----
(***************************************************************************)
(* Model of kyverno-mcp:                                                   *)
(*   - the resource loader   (pkg/kyverno/resource_loader.go, pkg/utils)   *)
(*   - the policy engine     (pkg/kyverno/engine.go)                       *)
(*   - the MCP tool handler  (pkg/mcp/apply_handler.go)                    *)
(*   - the report classifier (pkg/kyverno-cli/cli.go and the kyvernocli    *)
(*     revision kept in pkg/mcp/apply_handler.go)                          *)
(*   - the MCP tools         (pkg/tools: apply_policies, show_violations,  *)
(*     with pkg/common ParseNamespaceExcludes)                             *)
(*   - the local policy loader (LocalPolicyLoader in                       *)
(*     pkg/kyverno/resource_loader.go)                                     *)
(*                                                                         *)
(* Strings that the code splits or joins on "/" (apiVersion, kind, lookup  *)
(* keys) are sequences of their "/"-separated segments: "apps/v1" is       *)
(* <<"apps", "v1">> and the empty string is <<"">>, so that                *)
(* fmt.Sprintf("%s/%s", a, k) is a \o k.                                   *)
(***************************************************************************)
EXTENDS Integers, Sequences, FiniteSets, TLC

VARIABLES
    entry,            \* which entry point the call came through
    req,              \* types.ApplyRequest: PolicyPaths, ResourceQueries
    pc,               \* position of the call
    idx,              \* loop index of the running for-loop
    allPolicies,      \* engine.go: allPolicies
    allResources,     \* resource_loader.go: allResources
    calls,            \* external calls issued so far (policy loads, client, get, list)
    loadRet,          \* what apiResourceLoader.Load returned
    ret,              \* what the entry point returned
    ctx,              \* the context.Context of the call: its cancellation signal
    auditWarn,        \* BuildPolicyReportResults: auditWarn
    engineResponses,  \* BuildPolicyReportResults: engineResponses
    revision,         \* which revision of BuildPolicyReportResults is called
    rpc,              \* position of the classifier call
    results,          \* what BuildPolicyReportResults returned
    tool,             \* the MCP tool that is called (pkg/tools)
    toolArgs,         \* request.Params.Arguments of the tool call
    cluster,          \* what the target cluster serves and holds for the tool
    tpc,              \* position of the tool call
    toolEnv,          \* outcomes of the external calls the tool call issued
    toolOut,          \* the mcp.CallToolResult the tool handler returned
    policyData,       \* applyPolicy: the policy content given to ApplyCommandHelper
    localFile,        \* LocalPolicyLoader.Load: the path and what the file system holds there
    lpc,              \* position of the LocalPolicyLoader.Load call
    localRet,         \* what LocalPolicyLoader.Load returned
    kubeconfigPath,   \* cmd/main.go: the value of --kubeconfig
    inCluster,        \* whether the server runs in a pod of the cluster
    kubeconfigs,      \* the kubeconfig files: their contexts and current-context
    switches,         \* the switch_context calls served so far
    target            \* the context the show_violations call ran against

pipeVars == <<entry, req, pc, idx, allPolicies, allResources, calls, loadRet, ret, ctx>>
reportVars == <<auditWarn, engineResponses, revision, rpc, results>>
toolVars == <<tool, toolArgs, cluster, tpc, toolEnv, toolOut, policyData>>
localVars == <<localFile, lpc, localRet>>
contextVars == <<kubeconfigPath, inCluster, kubeconfigs, switches, target>>
vars == <<entry, req, pc, idx, allPolicies, allResources, calls, loadRet, ret, ctx,
          auditWarn, engineResponses, revision, rpc, results,
          tool, toolArgs, cluster, tpc, toolEnv, toolOut, policyData,
          localFile, lpc, localRet,
          kubeconfigPath, inCluster, kubeconfigs, switches, target>>

(***************************************************************************)
(* Bounds                                                                  *)
(***************************************************************************)
MaxQueries == 2      \* resource queries in one request
MaxPaths == 2        \* policy paths in one request
MaxOutcomes == 2     \* rule responses in one call of BuildPolicyReportResults
MaxFields == 2       \* comma-separated fields of a namespace_exclude argument
MaxResponses == 2    \* engine responses of one apply_policies scan
MaxReports == 2      \* policy reports the cluster holds for show_violations
MaxItems == 2        \* items of a policy list document
MaxFiles == 2        \* files of a policy directory
MaxSwitches == 2     \* switch_context calls before the show_violations call

SeqsUpTo(S, n) == UNION {[1..k -> S] : k \in 0..n}

RECURSIVE SumSeq(_)
SumSeq(s) == IF s = <<>> THEN 0 ELSE Head(s) + SumSeq(Tail(s))

RECURSIVE Flatten(_)
Flatten(ss) == IF ss = <<>> THEN <<>> ELSE Head(ss) \o Flatten(Tail(ss))

(***************************************************************************)
(* Errors: the chain of messages fmt.Errorf("...: %w") builds, outermost   *)
(* first, with the values formatted into them.                             *)
(***************************************************************************)
Nil == [msgs |-> <<>>, args |-> {}]
Errorf(msg, args) == [msgs |-> <<msg>>, args |-> args]
Wrap(msg, args, err) == [msgs |-> <<msg>> \o err.msgs, args |-> args \cup err.args]
IsErr(e) == e # Nil
Mentions(e, msg) == \E k \in 1..Len(e.msgs) : e.msgs[k] = msg

EmptyString == <<"">>

(***************************************************************************)
(* pkg/utils: the GVK -> GVR lookup table and GVKToGVR                     *)
(***************************************************************************)
GVR(g, v, r) == [Group |-> g, Version |-> v, Resource |-> r]

commonGVKtoGVR ==
    { [key |-> <<"v1", "Pod">>, gvr |-> GVR("", "v1", "pods")],
      [key |-> <<"v1", "Service">>, gvr |-> GVR("", "v1", "services")],
      [key |-> <<"v1", "Namespace">>, gvr |-> GVR("", "v1", "namespaces")],
      [key |-> <<"v1", "Node">>, gvr |-> GVR("", "v1", "nodes")],
      [key |-> <<"v1", "ConfigMap">>, gvr |-> GVR("", "v1", "configmaps")],
      [key |-> <<"v1", "Secret">>, gvr |-> GVR("", "v1", "secrets")],
      [key |-> <<"v1", "ServiceAccount">>, gvr |-> GVR("", "v1", "serviceaccounts")],
      [key |-> <<"v1", "PersistentVolume">>, gvr |-> GVR("", "v1", "persistentvolumes")],
      [key |-> <<"v1", "PersistentVolumeClaim">>,
       gvr |-> GVR("", "v1", "persistentvolumeclaims")],
      [key |-> <<"apps", "v1", "Deployment">>, gvr |-> GVR("apps", "v1", "deployments")],
      [key |-> <<"apps", "v1", "StatefulSet">>, gvr |-> GVR("apps", "v1", "statefulsets")],
      [key |-> <<"apps", "v1", "DaemonSet">>, gvr |-> GVR("apps", "v1", "daemonsets")],
      [key |-> <<"apps", "v1", "ReplicaSet">>, gvr |-> GVR("apps", "v1", "replicasets")],
      [key |-> <<"batch", "v1", "Job">>, gvr |-> GVR("batch", "v1", "jobs")],
      [key |-> <<"batch", "v1", "CronJob">>, gvr |-> GVR("batch", "v1", "cronjobs")],
      [key |-> <<"networking.k8s.io", "v1", "NetworkPolicy">>,
       gvr |-> GVR("networking.k8s.io", "v1", "networkpolicies")],
      [key |-> <<"networking.k8s.io", "v1", "Ingress">>,
       gvr |-> GVR("networking.k8s.io", "v1", "ingresses")],
      [key |-> <<"rbac.authorization.k8s.io", "v1", "Role">>,
       gvr |-> GVR("rbac.authorization.k8s.io", "v1", "roles")],
      [key |-> <<"rbac.authorization.k8s.io", "v1", "RoleBinding">>,
       gvr |-> GVR("rbac.authorization.k8s.io", "v1", "rolebindings")],
      [key |-> <<"rbac.authorization.k8s.io", "v1", "ClusterRole">>,
       gvr |-> GVR("rbac.authorization.k8s.io", "v1", "clusterroles")],
      [key |-> <<"rbac.authorization.k8s.io", "v1", "ClusterRoleBinding">>,
       gvr |-> GVR("rbac.authorization.k8s.io", "v1", "clusterrolebindings")],
      [key |-> <<"storage.k8s.io", "v1", "StorageClass">>,
       gvr |-> GVR("storage.k8s.io", "v1", "storageclasses")] }

HasMapping(key) == \E m \in commonGVKtoGVR : m.key = key
Mapping(key) == (CHOOSE m \in commonGVKtoGVR : m.key = key).gvr

\* strings.Contains(s, "/")
ContainsSlash(s) == Len(s) > 1

GVKToGVR(apiVersion, kind) ==
    LET av  == IF apiVersion = EmptyString THEN <<"v1">> ELSE apiVersion
        key == av \o kind
    IN  IF HasMapping(key)
        THEN [gvr |-> Mapping(key), err |-> Nil]
        ELSE IF ~ContainsSlash(av) /\ HasMapping(av \o kind)
        THEN [gvr |-> Mapping(av \o kind), err |-> Nil]
        ELSE [gvr |-> GVR("", "", ""),
              err |-> Errorf("no GroupVersionResource found",
                             {<<"apiVersion", av>>, <<"kind", kind>>})]

(***************************************************************************)
(* The cluster behind the dynamic client: the objects the API server       *)
(* holds, in the order a list call returns them.                           *)
(***************************************************************************)
Object(gvr, ns, name, app, apiVersion, kind) ==
    [gvr |-> gvr, namespace |-> ns, name |-> name, app |-> app,
     apiVersion |-> apiVersion, kind |-> kind, uid |-> name]

ClusterObjects ==
    << Object(GVR("", "v1", "pods"), "default", "pod-1", "test", <<"v1">>, <<"Pod">>),
       Object(GVR("", "v1", "pods"), "default", "pod-2", "", <<"v1">>, <<"Pod">>),
       Object(GVR("", "v1", "pods"), "kube-system", "pod-3", "test", <<"v1">>, <<"Pod">>),
       Object(GVR("apps", "v1", "deployments"), "default", "web", "test",
              <<"apps", "v1">>, <<"Deployment">>) >>

\* the label selectors the requests use; an empty selector selects everything
LabelMatches(selector, obj) ==
    \/ selector = ""
    \/ selector = "app=test" /\ obj.app = "test"

RECURSIVE SelectSeq2(_, _, _, _)
SelectSeq2(objs, gvr, ns, selector) ==
    IF objs = <<>> THEN <<>>
    ELSE LET o == Head(objs)
             rest == SelectSeq2(Tail(objs), gvr, ns, selector)
         IN  IF o.gvr = gvr /\ (ns = "" \/ o.namespace = ns) /\ LabelMatches(selector, o)
             THEN <<o>> \o rest ELSE rest

(***************************************************************************)
(* pkg/kyverno/resource_loader.go                                          *)
(***************************************************************************)
Query(apiVersion, kind, ns, name, labelSelector) ==
    [APIVersion |-> apiVersion, Kind |-> kind, Namespace |-> ns, Name |-> name,
     LabelSelector |-> labelSelector, FieldSelector |-> ""]

validateQuery(query) ==
    IF query.APIVersion = EmptyString THEN Errorf("apiVersion is required", {})
    ELSE IF query.Kind = EmptyString THEN Errorf("kind is required", {})
    ELSE Nil

\* client.Resource(gvr).Namespace(namespace) or client.Resource(gvr)
getResourceInterface(gvr, namespace) == [gvr |-> gvr, namespace |-> namespace]

\* ri.Get on the cluster: the object, a NotFound status error, or a transport error
Get(ri, name, apiOk) ==
    LET hit == {k \in 1..Len(ClusterObjects) :
                    /\ ClusterObjects[k].gvr = ri.gvr
                    /\ ClusterObjects[k].namespace = ri.namespace
                    /\ ClusterObjects[k].name = name}
    IN  IF ~apiOk THEN [outcome |-> "error", items |-> <<>>]
        ELSE IF hit = {} THEN [outcome |-> "notfound", items |-> <<>>]
        ELSE [outcome |-> "ok", items |-> <<ClusterObjects[CHOOSE k \in hit : TRUE]>>]

\* ri.List on the cluster
List(ri, listOptions, apiOk) ==
    IF ~apiOk THEN [outcome |-> "error", items |-> <<>>]
    ELSE [outcome |-> "ok",
          items |-> SelectSeq2(ClusterObjects, ri.gvr, ri.namespace,
                               listOptions.LabelSelector)]

getSingleResource(ri, query, apiOk) ==
    LET got == Get(ri, query.Name, apiOk)
        call == [op |-> "get", outcome |-> got.outcome]
    IN  IF got.outcome = "notfound"
        THEN [resources |-> <<>>, err |-> Nil, calls |-> <<call>>]
        ELSE IF got.outcome = "error"
        THEN [resources |-> <<>>,
              err |-> Errorf("failed to get",
                             {<<"kind", query.Kind>>, <<"name", query.Name>>,
                              <<"namespace", query.Namespace>>, <<"cause", got.outcome>>}),
              calls |-> <<call>>]
        ELSE [resources |-> got.items, err |-> Nil, calls |-> <<call>>]

listResources(ri, query, apiOk) ==
    LET listOptions == [LabelSelector |-> query.LabelSelector,
                        FieldSelector |-> query.FieldSelector]
        got == List(ri, listOptions, apiOk)
        call == [op |-> "list", outcome |-> got.outcome]
    IN  IF got.outcome = "error"
        THEN [resources |-> <<>>,
              err |-> Errorf("failed to list resources", {<<"cause", got.outcome>>}),
              calls |-> <<call>>]
        ELSE [resources |-> got.items, err |-> Nil, calls |-> <<call>>]

processSingleQuerySkipsUnmapped(query, apiOk) ==
    LET verr == validateQuery(query)
        conv == GVKToGVR(query.APIVersion, query.Kind)
        ri   == getResourceInterface(conv.gvr, query.Namespace)
    IN  IF IsErr(verr)
        THEN [resources |-> <<>>, err |-> Wrap("invalid resource query", {}, verr),
              calls |-> <<>>]
        ELSE IF IsErr(conv.err)
        THEN [resources |-> <<>>, err |-> Nil, calls |-> <<>>]
        ELSE IF query.Name # ""
        THEN getSingleResource(ri, query, apiOk)
        ELSE listResources(ri, query, apiOk)

processSingleQuery(query, apiOk) ==
    LET verr == validateQuery(query)
        conv == GVKToGVR(query.APIVersion, query.Kind)
        ri   == getResourceInterface(conv.gvr, query.Namespace)
    IN  IF IsErr(verr)
        THEN [resources |-> <<>>, err |-> Wrap("invalid resource query", {}, verr),
              calls |-> <<>>]
        ELSE IF IsErr(conv.err)
        THEN [resources |-> <<>>,
              err |-> Wrap("failed to get GVR",
                           {<<"apiVersion", query.APIVersion>>, <<"kind", query.Kind>>},
                           conv.err),
              calls |-> <<>>]
        ELSE IF query.Name # ""
        THEN getSingleResource(ri, query, apiOk)
        ELSE listResources(ri, query, apiOk)

(***************************************************************************)
(* Policies and the policy loader behind the PolicyLoader interface: what  *)
(* Load(ctx, path) returns for each path of the requests.                  *)
(***************************************************************************)
Rule(name, validation, mutation, generation) ==
    [Name |-> name, Validation |-> validation, Mutation |-> mutation,
     Generation |-> generation]

PolicyObj(type, name, rules) == [Type |-> type, Name |-> name, Rules |-> rules]

PolicyPathIds ==
    {"policy.yaml", "policy-list.yaml", "rule-kinds.yaml", "missing.yaml", "no-policies"}

policyLoaderLoad(path) ==
    CASE path = "policy.yaml" ->
           [policies |-> << PolicyObj("ClusterPolicy", "require-labels",
                               << Rule("check-labels", TRUE, FALSE, FALSE),
                                  Rule("add-labels", FALSE, TRUE, FALSE) >>) >>,
            err |-> Nil]
      [] path = "policy-list.yaml" ->
           [policies |-> << PolicyObj("ClusterPolicy", "disallow-latest",
                               << Rule("validate-and-mutate", TRUE, TRUE, FALSE) >>),
                            PolicyObj("Policy", "generate-quota",
                               << Rule("gen-quota", FALSE, FALSE, TRUE),
                                  Rule("no-block", FALSE, FALSE, FALSE) >>) >>,
            err |-> Nil]
      [] path = "rule-kinds.yaml" ->
           [policies |-> << PolicyObj("ClusterPolicy", "rule-kinds",
                               << Rule("validate-generate", TRUE, FALSE, TRUE),
                                  Rule("mutate-generate", FALSE, TRUE, TRUE),
                                  Rule("all-blocks", TRUE, TRUE, TRUE) >>) >>,
            err |-> Nil]
      [] path = "no-policies" -> [policies |-> <<>>, err |-> Nil]
      [] OTHER ->
           [policies |-> <<>>,
            err |-> Errorf("policy file does not exist", {<<"path", path>>})]

(***************************************************************************)
(* pkg/kyverno/engine.go: ApplyPolicies                                    *)
(***************************************************************************)
ResourceInfo(resource) ==
    [APIVersion |-> resource.apiVersion, Kind |-> resource.kind,
     Namespace |-> resource.namespace, Name |-> resource.name, UID |-> resource.uid]

RuleTypeLastBlockWins(rule) ==
    IF rule.Generation THEN "generate"
    ELSE IF rule.Mutation THEN "mutate"
    ELSE "validate"

\* lines 114-121: the rule type from the populated block
RuleType(rule) ==
    IF rule.Validation THEN "validate"
    ELSE IF rule.Mutation THEN "mutate"
    ELSE IF rule.Generation THEN "generate"
    ELSE "validate"

ApplyRulesFirstOnly(resource, policyName, rules) ==
    IF rules = <<>> THEN <<>>
    ELSE << [Policy |-> policyName,
             Resource |-> ResourceInfo(resource),
             Rules |-> << [Name |-> Head(rules).Name, Type |-> RuleType(Head(rules)),
                           Message |-> "Policy rule evaluated", Status |-> "pass"] >>] >>

\* lines 112-145: one PolicyApplicationResult per rule of the policy
RECURSIVE ApplyRules(_, _, _)
ApplyRules(resource, policyName, rules) ==
    IF rules = <<>> THEN <<>>
    ELSE << [Policy |-> policyName,
             Resource |-> ResourceInfo(resource),
             Rules |-> << [Name |-> Head(rules).Name, Type |-> RuleType(Head(rules)),
                           Message |-> "Policy rule evaluated", Status |-> "pass"] >>] >>
         \o ApplyRules(resource, policyName, Tail(rules))

\* lines 94-146: the policies loop for one resource; an unsupported type is skipped
RECURSIVE ApplyPoliciesTo(_, _)
ApplyPoliciesTo(resource, policies) ==
    IF policies = <<>> THEN <<>>
    ELSE LET policy == Head(policies)
         IN  (IF policy.Type \in {"ClusterPolicy", "Policy"}
              THEN ApplyRules(resource, policy.Name, policy.Rules)
              ELSE <<>>)
             \o ApplyPoliciesTo(resource, Tail(policies))

\* lines 93-147: the resources loop
RECURSIVE ApplyAll(_, _)
ApplyAll(resources, policies) ==
    IF resources = <<>> THEN <<>>
    ELSE ApplyPoliciesTo(Head(resources), policies) \o ApplyAll(Tail(resources), policies)

ErrorRet(err) == [kind |-> "error", err |-> err, Results |-> <<>>, Resources |-> <<>>]
ResponseRet(res, resources) ==
    [kind |-> "response", err |-> Nil, Results |-> res, Resources |-> resources]
NoRet == [kind |-> "none", err |-> Nil, Results |-> <<>>, Resources |-> <<>>]

\* lines 66-75: the checks after the policy loading loop
CheckPolicies(policies) ==
    IF Len(policies) = 0
    THEN ErrorRet(Errorf("no valid policies found in the provided paths", {}))
    ELSE IF Len(policies) = 0
    THEN ResponseRet(<<>>, <<>>)
    ELSE NoRet

ApplyLoadedRejectsNoResources(policies, lr) ==
    IF lr.kind = "error"
    THEN ErrorRet(Wrap("failed to load resources", {}, lr.err))
    ELSE IF Len(lr.Resources) = 0
    THEN ErrorRet(Errorf("no resources found", {}))
    ELSE ResponseRet(ApplyAll(lr.Resources, policies), lr.Resources)

\* lines 78-153: what ApplyPolicies does with the result of resourceLoader.Load
ApplyLoaded(policies, lr) ==
    IF lr.kind = "error"
    THEN ErrorRet(Wrap("failed to load resources", {}, lr.err))
    ELSE IF Len(lr.Resources) = 0
    THEN ResponseRet(<<>>, <<>>)
    ELSE ResponseRet(ApplyAll(lr.Resources, policies), lr.Resources)

(***************************************************************************)
(* pkg/mcp/apply_handler.go: ToolHandler                                   *)
(***************************************************************************)
\* mcp.NewToolResultError / mcp.NewToolResultText of the marshalled response
ToolResultError(msg, err) ==
    [kind |-> "toolError", err |-> Wrap(msg, {}, err), Results |-> <<>>,
     Resources |-> <<>>]
ToolResultText(response) ==
    [kind |-> "toolText", err |-> Nil, Results |-> response.Results,
     Resources |-> response.Resources]

ValidateRequiredPathsOnly(request) ==
    IF Len(request.PolicyPaths) = 0
    THEN Errorf("at least one policy path is required", {})
    ELSE Nil

\* lines 126-131: validation of the required fields
ValidateRequired(request) ==
    IF Len(request.PolicyPaths) = 0
    THEN Errorf("at least one policy path is required", {})
    ELSE IF Len(request.ResourceQueries) = 0
    THEN Errorf("at least one resource query is required", {})
    ELSE Nil

\* lines 134-148: the handler's result for what ProcessApplyRequest returned
ToolResult(r) ==
    IF r.kind = "error" THEN ToolResultError("failed to process request", r.err)
    ELSE ToolResultText(r)

\* what the entry point returns once ApplyPolicies returned r
Return(e, r) == IF e = "handler" THEN ToolResult(r) ELSE r

(***************************************************************************)
(* pkg/kyverno-cli/cli.go: BuildPolicyReportResults, and the revision of   *)
(* package kyvernocli kept in pkg/mcp/apply_handler.go                     *)
(***************************************************************************)
AnnotationPolicyScored == "policies.kyverno.io/scored"
AnnotationPolicyCategory == "policies.kyverno.io/category"
AnnotationPolicySeverity == "policies.kyverno.io/severity"

\* annotations are a set of <<key, value>> pairs with at most one pair per key
HasAnnotation(annotations, key) == \E a \in annotations : a[1] = key
Annotation(annotations, key) ==
    IF HasAnnotation(annotations, key)
    THEN (CHOOSE a \in annotations : a[1] = key)[2]
    ELSE ""

\* ValidationFailureAction.Audit(): every action that is not enforce
Audit(action) == action \notin {"Enforce", "enforce"}

ScoredOnlyWhenTrue(annotations) ==
    Annotation(annotations, AnnotationPolicyScored) = "true"

\* lines 21-26: scored unless the annotation is "false"
Scored(annotations) ==
    ~(HasAnnotation(annotations, AnnotationPolicyScored)
      /\ Annotation(annotations, AnnotationPolicyScored) = "false")

ObjectReference(resource) ==
    [Kind |-> resource.kind, Namespace |-> resource.namespace,
     APIVersion |-> resource.apiVersion, Name |-> resource.name, UID |-> resource.uid]

ResultStatusIgnoresAuditWarn(aw, engineResponse, ruleResponse) ==
    IF ruleResponse.Status = "error" THEN "error"
    ELSE IF ruleResponse.Status = "fail"
    THEN IF ~Scored(engineResponse.Annotations) THEN "warn"
         ELSE IF Audit(engineResponse.ValidationFailureAction) THEN "warn"
         ELSE "fail"
    ELSE IF ruleResponse.Status = "warn" THEN "warn"
    ELSE "error"

\* cli.go 50-66: the status of a result
ResultStatus(aw, engineResponse, ruleResponse) ==
    IF ruleResponse.Status = "error" THEN "error"
    ELSE IF ruleResponse.Status = "fail"
    THEN IF ~Scored(engineResponse.Annotations) THEN "warn"
         ELSE IF aw /\ Audit(engineResponse.ValidationFailureAction) THEN "warn"
         ELSE "fail"
    ELSE IF ruleResponse.Status = "warn" THEN "warn"
    ELSE "error"

\* apply_handler.go 296-312: the status of a result in the kyvernocli revision;
\* the last branch prints the rule response and leaves the status unset
ResultStatusKyvernocli(aw, engineResponse, ruleResponse) ==
    IF ruleResponse.Status = "skip" THEN "skip"
    ELSE IF ruleResponse.Status = "error" THEN "error"
    ELSE IF ruleResponse.Status = "pass" THEN "pass"
    ELSE IF ruleResponse.Status = "fail"
    THEN IF ~Scored(engineResponse.Annotations) THEN "warn"
         ELSE IF aw /\ Audit(engineResponse.ValidationFailureAction) THEN "warn"
         ELSE "fail"
    ELSE ""

IsValidationAnyType(ruleResponse) == ruleResponse.RuleType \in {"Validation", "Mutation"}

\* cli.go 30: ruleResponse.RuleType() != engineapi.Validation
IsValidation(ruleResponse) == ruleResponse.RuleType = "Validation"

ReportedKeepsSkip(ruleResponse) ==
    /\ IsValidation(ruleResponse)
    /\ ruleResponse.Status # "pass"

\* cli.go 29-35: only validation rule responses that neither passed nor were skipped
Reported(ruleResponse) ==
    /\ IsValidation(ruleResponse)
    /\ ruleResponse.Status \notin {"pass", "skip"}

ReportResult(engineResponse, ruleResponse, scored, status) ==
    [Policy |-> engineResponse.PolicyName,
     Rule |-> ruleResponse.Name,
     Resources |-> <<ObjectReference(engineResponse.Resource)>>,
     Scored |-> scored,
     Message |-> ruleResponse.Message,
     Result |-> status,
     Source |-> "kyverno",
     Timestamp |-> "now",
     Category |-> Annotation(engineResponse.Annotations, AnnotationPolicyCategory),
     Severity |-> Annotation(engineResponse.Annotations, AnnotationPolicySeverity)]

\* cli.go 74-83: the entry returned when no result was built
NoPoliciesApplied ==
    [Policy |-> "No policies applied", Rule |-> "No policies applied",
     Resources |-> <<>>, Scored |-> FALSE, Message |-> "No policies applied",
     Result |-> "skip", Source |-> "", Timestamp |-> "", Category |-> "",
     Severity |-> ""]

\* cli.go 29-72: the rules loop of one engine response
RECURSIVE RuleResults(_, _, _)
RuleResults(aw, engineResponse, rules) ==
    IF rules = <<>> THEN <<>>
    ELSE (IF Reported(Head(rules))
          THEN <<ReportResult(engineResponse, Head(rules),
                              Scored(engineResponse.Annotations),
                              ResultStatus(aw, engineResponse, Head(rules)))>>
          ELSE <<>>)
         \o RuleResults(aw, engineResponse, Tail(rules))

\* cli.go 18-73: the engine responses loop
RECURSIVE ResponseResults(_, _)
ResponseResults(aw, responses) ==
    IF responses = <<>> THEN <<>>
    ELSE RuleResults(aw, Head(responses), Head(responses).Rules)
         \o ResponseResults(aw, Tail(responses))

BuildPolicyReportResults(aw, responses) ==
    LET built == ResponseResults(aw, responses)
    IN  IF built = <<>> THEN <<NoPoliciesApplied>> ELSE built

\* apply_handler.go 276-319: the rules loop of the kyvernocli revision
RECURSIVE RuleResultsKyvernocli(_, _, _)
RuleResultsKyvernocli(aw, engineResponse, rules) ==
    IF rules = <<>> THEN <<>>
    ELSE (IF Reported(Head(rules))
          THEN <<ReportResult(engineResponse, Head(rules), TRUE,
                              ResultStatusKyvernocli(aw, engineResponse, Head(rules)))>>
          ELSE <<>>)
         \o RuleResultsKyvernocli(aw, engineResponse, Tail(rules))

\* apply_handler.go 262-322
RECURSIVE BuildPolicyReportResultsKyvernocli(_, _)
BuildPolicyReportResultsKyvernocli(aw, responses) ==
    IF responses = <<>> THEN <<>>
    ELSE RuleResultsKyvernocli(aw, Head(responses), Head(responses).Rules)
         \o BuildPolicyReportResultsKyvernocli(aw, Tail(responses))

(***************************************************************************)
(* Engine responses given to the classifier                                *)
(***************************************************************************)
Statuses == {"pass", "skip", "error", "fail", "warn", "unknown"}

RuleResponses ==
    [RuleType : {"Validation"}, Status : Statuses]
    \cup [RuleType : {"Mutation"}, Status : {"fail", "error"}]

\* the engine responses of a call are those of different policies, the rule
\* responses of an engine response those of different rules
PolicyNames == <<"require-labels", "disallow-latest", "restrict-ports", "require-probes">>
RuleNames == <<"rule-1", "rule-2", "rule-3", "rule-4">>

RuleResponse(k, r) ==
    [Name |-> RuleNames[k], RuleType |-> r.RuleType, Status |-> r.Status,
     Message |-> r.Status]

AnnotationSets ==
    { {}, {<<AnnotationPolicyScored, "false">>}, {<<AnnotationPolicyScored, "true">>} }

Headers ==
    [Annotations : AnnotationSets, ValidationFailureAction : {"Audit", "Enforce"}]

\* the numbers of rule responses of the engine responses of one call: a call
\* holds at most n rule responses, an engine response without any counting for one
Weight(shape) == SumSeq([k \in 1..Len(shape) |-> IF shape[k] = 0 THEN 1 ELSE shape[k]])
Shapes(n) == {shape \in SeqsUpTo(0..n, n) : Weight(shape) <= n}

\* the engine responses of the given shape, headers and rule responses
EngineResponseSeq(shape, headers, flat) ==
    [k \in 1..Len(shape) |->
        [PolicyName |-> PolicyNames[k],
         Annotations |-> headers[k].Annotations,
         ValidationFailureAction |-> headers[k].ValidationFailureAction,
         Resource |-> ClusterObjects[1],
         Rules |-> [i \in 1..shape[k] |->
                       RuleResponse(i, flat[SumSeq(SubSeq(shape, 1, k - 1)) + i])]]]

(***************************************************************************)
(* Requests                                                                *)
(***************************************************************************)
QueryTypes ==
    { [apiVersion |-> <<"v1">>, kind |-> <<"Pod">>],
      [apiVersion |-> <<"apps", "v1">>, kind |-> <<"Deployment">>],
      [apiVersion |-> <<"invalid", "version">>, kind |-> <<"InvalidKind">>],
      [apiVersion |-> EmptyString, kind |-> <<"Pod">>],
      [apiVersion |-> <<"v1">>, kind |-> EmptyString] }

\* the queries given to Load directly: named fetches and filtered lists
LoaderQueries ==
    { Query(t.apiVersion, t.kind, ns, "pod-1", "") :
          t \in QueryTypes, ns \in {"", "default"} }
    \cup
    { Query(t[1].apiVersion, t[1].kind, t[2], "", t[3]) :
          t \in QueryTypes \X {"", "default"} \X {"", "app=test"} }

\* the queries of the apply requests
ApplyQueries ==
    { Query(<<"v1">>, <<"Pod">>, "default", "", ""),
      Query(<<"v1">>, <<"Pod">>, "default", "pod-1", ""),
      Query(<<"apps", "v1">>, <<"Deployment">>, "default", "pod-1", ""),
      Query(<<"apps", "v1">>, <<"Deployment">>, "kube-system", "", ""),
      Query(<<"invalid", "version">>, <<"InvalidKind">>, "", "test", "") }

Entries == {"handler", "engine", "loader"}

\* the kubeconfigPath of a request or of a direct call of Load: none, or a file
KubeconfigPaths == {"", "/request/kubeconfig"}
\* the serverKubeconfigPath the engine was constructed with
serverKubeconfigPath == "/path/to/kubeconfig"

\* engine.go 78: the kubeconfig path ApplyPolicies passes to resourceLoader.Load
KubeconfigForLoad(request) == serverKubeconfigPath

\* the kubeconfigPath parameter of the Load call
LoadKubeconfigPath(e, request) ==
    IF e = "loader" THEN request.KubeconfigPath ELSE KubeconfigForLoad(request)

LoadErr(err) == [kind |-> "error", err |-> err, Results |-> <<>>, Resources |-> <<>>]
LoadOk(resources) ==
    [kind |-> "resources", err |-> Nil, Results |-> <<>>, Resources |-> resources]

Call(op, arg, outcome) == [op |-> op, arg |-> arg, outcome |-> outcome]

ReportIdle ==
    /\ auditWarn = FALSE
    /\ engineResponses = <<>>
    /\ revision = "cli"
    /\ rpc = "idle"
    /\ results = <<>>

\* no tool of pkg/tools is called
NoArgs == [policySets |-> <<>>, namespace |-> "", namespace_exclude |-> <<>>]
NoCluster == [groups |-> <<>>, reports |-> <<>>]
NoResult == [IsError |-> FALSE, Text |-> "", Items |-> <<>>]
ToolIdle ==
    /\ tool = "none"
    /\ toolArgs = NoArgs
    /\ cluster = NoCluster
    /\ tpc = "idle"
    /\ toolEnv = ""
    /\ toolOut = NoResult
    /\ policyData = <<>>

\* clientcmd.RecommendedHomeFile
RecommendedHomeFile == "~/.kube/config"
\* README.md 38-42: the server is started without --kubeconfig or with a file
KubeconfigFlags == {"", "/path/to/kubeconfig"}
KubeconfigFiles == {RecommendedHomeFile, "/path/to/kubeconfig"}
\* the contexts every kubeconfig file of the model defines
ContextNames == {"dev", "staging"}
Kubeconfig(current) == [CurrentContext |-> current, Contexts |-> ContextNames]

\* no switch_context call is made and the server runs with its defaults
ContextIdle ==
    /\ kubeconfigPath = ""
    /\ inCluster = FALSE
    /\ kubeconfigs = [f \in KubeconfigFiles |-> Kubeconfig("dev")]
    /\ switches = <<>>
    /\ target = ""

\* LocalPolicyLoader.Load is not called
NoFile == [path |-> "", type |-> "missing", doc |-> <<>>, files |-> <<>>]
NoPolicies == [policies |-> <<>>, err |-> Nil]
LocalIdle ==
    /\ localFile = NoFile
    /\ lpc = "idle"
    /\ localRet = NoPolicies

InitCall ==
    /\ entry \in Entries
    /\ req \in [PolicyPaths : IF entry = "loader" THEN {<<>>}
                              ELSE SeqsUpTo(PolicyPathIds, MaxPaths),
                ResourceQueries : IF entry = "loader"
                                  THEN SeqsUpTo(LoaderQueries, MaxQueries)
                                  ELSE SeqsUpTo(ApplyQueries, MaxQueries),
                KubeconfigPath : KubeconfigPaths]
    /\ pc = "start"
    /\ idx = 0
    /\ allPolicies = <<>>
    /\ allResources = <<>>
    /\ calls = <<>>
    /\ loadRet = NoRet
    /\ ret = NoRet
    /\ ReportIdle
    /\ ToolIdle
    /\ LocalIdle
    /\ ContextIdle

\* the call is made with a context that is never cancelled (context.Background)
Init == InitCall /\ ctx = "background"

\* apply_handler.go 114-131: bind and validate, then ProcessApplyRequest
ToolHandler ==
    /\ entry = "handler" /\ pc = "start"
    /\ \E bindOk \in BOOLEAN :
         IF ~bindOk
         THEN /\ ret' = ToolResultError("failed to parse request arguments",
                                        Errorf("bind", {}))
              /\ pc' = "done"
         ELSE IF IsErr(ValidateRequired(req))
         THEN /\ ret' = ToolResultError(ValidateRequired(req).msgs[1], Nil)
              /\ pc' = "done"
         ELSE /\ ret' = ret
              /\ pc' = "apply"
    /\ UNCHANGED <<entry, req, idx, allPolicies, allResources, calls, loadRet, ctx>>
    /\ UNCHANGED reportVars
    /\ UNCHANGED toolVars
    /\ UNCHANGED localVars
    /\ UNCHANGED contextVars

\* engine.go 48-56: the guard on the policy paths
ApplyPolicies ==
    /\ \/ pc = "apply"
       \/ entry = "engine" /\ pc = "start"
    /\ IF Len(req.PolicyPaths) = 0
       THEN /\ ret' = Return(entry,
                        ErrorRet(Errorf("no policy paths provided in the request", {})))
            /\ pc' = "done"
            /\ idx' = idx
       ELSE /\ ret' = ret
            /\ pc' = "policies"
            /\ idx' = 1
    /\ UNCHANGED <<entry, req, allPolicies, allResources, calls, loadRet, ctx>>
    /\ UNCHANGED reportVars
    /\ UNCHANGED toolVars
    /\ UNCHANGED localVars
    /\ UNCHANGED contextVars

\* engine.go 57-75: one iteration of the policy loading loop, and the checks
\* that follow the loop after its last iteration
LoadPolicy ==
    /\ pc = "policies"
    /\ LET path == req.PolicyPaths[idx]
           out  == policyLoaderLoad(path)
           all  == allPolicies \o out.policies
       IN  /\ calls' = Append(calls, Call("policyLoad", path,
                                          IF IsErr(out.err) THEN "error" ELSE "ok"))
           /\ IF IsErr(out.err)
              THEN /\ ret' = Return(entry, ErrorRet(Wrap("failed to load policy from",
                                                         {<<"path", path>>}, out.err)))
                   /\ pc' = "done"
                   /\ UNCHANGED <<idx, allPolicies>>
              ELSE /\ allPolicies' = all
                   /\ IF idx < Len(req.PolicyPaths)
                      THEN /\ idx' = idx + 1
                           /\ UNCHANGED <<pc, ret>>
                      ELSE /\ idx' = idx
                           /\ IF CheckPolicies(all).kind # "none"
                              THEN /\ ret' = Return(entry, CheckPolicies(all))
                                   /\ pc' = "done"
                              ELSE /\ ret' = ret
                                   /\ pc' = "load"
    /\ UNCHANGED <<entry, req, allResources, loadRet, ctx>>
    /\ UNCHANGED reportVars
    /\ UNCHANGED toolVars
    /\ UNCHANGED localVars
    /\ UNCHANGED contextVars

\* engine.go 95-145: the loops over resources, policies and rules run when
\* Load returned at least one resource
Traverses(lr) == entry # "loader" /\ lr.kind = "resources" /\ Len(lr.Resources) > 0

\* Load returned lr: the caller (ApplyPolicies, then the handler) runs to its end.
\* The cancellation signal of a live context may fire while the loops of
\* engine.go 95-145 run; no statement of these loops reads ctx.
Finish(lr) ==
    /\ loadRet' = lr
    /\ ret' = IF entry = "loader" THEN lr ELSE Return(entry, ApplyLoaded(allPolicies, lr))
    /\ pc' = "done"
    /\ ctx' \in IF ctx = "live" /\ Traverses(lr) THEN {"live", "cancelled"} ELSE {ctx}

\* resource_loader.go 152-167: the guard on the queries and the dynamic client
Load ==
    /\ \/ pc = "load"
       \/ entry = "loader" /\ pc = "start"
    /\ IF Len(req.ResourceQueries) = 0
       THEN /\ Finish(LoadErr(Errorf("at least one resource query is required", {})))
            /\ UNCHANGED <<idx, calls>>
       ELSE \E clientOk \in BOOLEAN :
              /\ calls' = Append(calls, Call("client", LoadKubeconfigPath(entry, req),
                                             IF clientOk THEN "ok" ELSE "error"))
              /\ IF clientOk
                 THEN /\ pc' = "queries"
                      /\ idx' = 1
                      /\ UNCHANGED <<loadRet, ret, ctx>>
                 ELSE /\ Finish(LoadErr(Errorf("failed to create dynamic client", {})))
                      /\ idx' = idx
    /\ UNCHANGED <<entry, req, allPolicies, allResources>>
    /\ UNCHANGED reportVars
    /\ UNCHANGED toolVars
    /\ UNCHANGED localVars
    /\ UNCHANGED contextVars

AppendResourcesUnique(all, found) ==
    all \o SelectSeq(found, LAMBDA o : \A k \in 1..Len(all) : all[k] # o)

\* resource_loader.go 175: allResources = append(allResources, resources...)
AppendResources(all, found) == all \o found

\* resource_loader.go 106, 126: ri.Get and ri.List are given ctx; the client
\* fails a call made with a cancelled context, otherwise the call may succeed
\* or fail
ApiOutcomes(c) == IF c = "cancelled" THEN {FALSE} ELSE BOOLEAN

\* resource_loader.go 170-178: one iteration of the query loop; Load returns
\* on the first error or after the last query
ProcessQuery ==
    /\ pc = "queries"
    /\ \E apiOk \in ApiOutcomes(ctx) :
         LET r   == processSingleQuery(req.ResourceQueries[idx], apiOk)
             all == AppendResources(allResources, r.resources)
         IN  /\ calls' = calls \o [k \in 1..Len(r.calls) |->
                                      Call(r.calls[k].op, idx, r.calls[k].outcome)]
             /\ IF IsErr(r.err)
                THEN /\ Finish(LoadErr(Wrap("error processing query",
                                            {<<"index", idx - 1>>}, r.err)))
                     /\ UNCHANGED <<idx, allResources>>
                ELSE /\ allResources' = all
                     /\ IF idx < Len(req.ResourceQueries)
                        THEN /\ idx' = idx + 1
                             /\ UNCHANGED <<pc, loadRet, ret, ctx>>
                        ELSE /\ Finish(LoadOk(all))
                             /\ idx' = idx
    /\ UNCHANGED <<entry, req, allPolicies>>
    /\ UNCHANGED reportVars
    /\ UNCHANGED toolVars
    /\ UNCHANGED localVars
    /\ UNCHANGED contextVars

Next ==
    \/ ToolHandler
    \/ ApplyPolicies
    \/ LoadPolicy
    \/ Load
    \/ ProcessQuery

Spec == Init /\ [][Next]_vars

(***************************************************************************)
(* The same call made with a context whose cancellation signal may fire    *)
(***************************************************************************)
InitCancel == InitCall /\ ctx = "live"

\* the caller cancels the context between two iterations of the query loop of
\* resource_loader.go 170-178, that is while resources are being resolved
Cancel ==
    /\ pc = "queries"
    /\ ctx = "live"
    /\ ctx' = "cancelled"
    /\ UNCHANGED <<entry, req, pc, idx, allPolicies, allResources, calls, loadRet, ret>>
    /\ UNCHANGED reportVars
    /\ UNCHANGED toolVars
    /\ UNCHANGED localVars
    /\ UNCHANGED contextVars

NextCancel ==
    \/ Next
    \/ Cancel

SpecCancel == InitCancel /\ [][NextCancel]_vars

(***************************************************************************)
(* The classifier called on its own                                        *)
(***************************************************************************)
PipeIdle ==
    /\ entry = "loader"
    /\ req = [PolicyPaths |-> <<>>, ResourceQueries |-> <<>>, KubeconfigPath |-> ""]
    /\ pc = "idle"
    /\ idx = 0
    /\ allPolicies = <<>>
    /\ allResources = <<>>
    /\ calls = <<>>
    /\ loadRet = NoRet
    /\ ret = NoRet
    /\ ctx = "background"

InitReport ==
    /\ PipeIdle
    /\ auditWarn \in BOOLEAN
    /\ \E shape \in Shapes(MaxOutcomes) :
         \E headers \in [1..Len(shape) -> Headers],
            flat \in [1..SumSeq(shape) -> RuleResponses] :
              engineResponses = EngineResponseSeq(shape, headers, flat)
    /\ revision \in {"cli", "kyvernocli"}
    /\ rpc = "input"
    /\ results = <<>>
    /\ ToolIdle
    /\ LocalIdle
    /\ ContextIdle

BuildReport ==
    /\ rpc = "input" /\ revision = "cli"
    /\ results' = BuildPolicyReportResults(auditWarn, engineResponses)
    /\ rpc' = "built"
    /\ UNCHANGED <<auditWarn, engineResponses, revision>>
    /\ UNCHANGED pipeVars
    /\ UNCHANGED toolVars
    /\ UNCHANGED localVars
    /\ UNCHANGED contextVars

BuildReportKyvernocli ==
    /\ rpc = "input" /\ revision = "kyvernocli"
    /\ results' = BuildPolicyReportResultsKyvernocli(auditWarn, engineResponses)
    /\ rpc' = "built"
    /\ UNCHANGED <<auditWarn, engineResponses, revision>>
    /\ UNCHANGED pipeVars
    /\ UNCHANGED toolVars
    /\ UNCHANGED localVars
    /\ UNCHANGED contextVars

NextReport ==
    \/ BuildReport
    \/ BuildReportKyvernocli

SpecReport == InitReport /\ [][NextReport]_vars

(***************************************************************************)
(* Properties of the classifier (SpecReport)                               *)
(***************************************************************************)
\* the rule outcomes given to the call: engine response k, rule response i
OutcomeIds ==
    {o \in (1..Len(engineResponses)) \X (1..MaxOutcomes + 1) :
        o[2] <= Len(engineResponses[o[1]].Rules)}
OutcomeStatus(o) == engineResponses[o[1]].Rules[o[2]].Status
OutcomeIsValidation(o) == engineResponses[o[1]].Rules[o[2]].RuleType = "Validation"
OutcomePolicy(o) == engineResponses[o[1]]

\* the entries of the returned collection for the (policy, rule, resource) of o
ResultsFor(o) ==
    {n \in 1..Len(results) :
        /\ results[n].Policy = engineResponses[o[1]].PolicyName
        /\ results[n].Rule = engineResponses[o[1]].Rules[o[2]].Name
        /\ results[n].Resources = <<ObjectReference(engineResponses[o[1]].Resource)>>}

ScoredAnnotationIsFalse(er) == <<AnnotationPolicyScored, "false">> \in er.Annotations
ActionIsAudit(er) == er.ValidationFailureAction = "Audit"

\* C1: a failing validation rule outcome of a scored policy is classified, and its
\* status is warn exactly when auditWarn is true and the policy's failure action is
\* audit; otherwise (enforce, or auditWarn false) it is fail.
C1_ScoredFailClassification ==
    rpc = "built" =>
        \A o \in OutcomeIds :
            (/\ OutcomeIsValidation(o)
             /\ OutcomeStatus(o) = "fail"
             /\ ~ScoredAnnotationIsFalse(OutcomePolicy(o)))
            => /\ ResultsFor(o) # {}
               /\ \A n \in ResultsFor(o) :
                    results[n].Result =
                        IF auditWarn /\ ActionIsAudit(OutcomePolicy(o))
                        THEN "warn" ELSE "fail"

C1_Witness ==
    /\ rpc = "built"
    /\ auditWarn
    /\ \E o \in OutcomeIds :
         /\ OutcomeIsValidation(o)
         /\ OutcomeStatus(o) = "fail"
         /\ ~ScoredAnnotationIsFalse(OutcomePolicy(o))
         /\ ActionIsAudit(OutcomePolicy(o))
         /\ \E n \in ResultsFor(o) : results[n].Result = "warn"

\* C2: a failing validation rule outcome of an unscored policy (scored annotation
\* "false") is classified warn for every auditWarn and every failure action; a
\* policy whose annotation is absent or has another value is treated as scored:
\* its failing outcome is reported as scored and is fail unless audit-warned.
C2_UnscoredFailIsWarn ==
    rpc = "built" =>
        \A o \in OutcomeIds :
            (OutcomeIsValidation(o) /\ OutcomeStatus(o) = "fail")
            => /\ ResultsFor(o) # {}
               /\ \A n \in ResultsFor(o) :
                    IF ScoredAnnotationIsFalse(OutcomePolicy(o))
                    THEN results[n].Result = "warn"
                    ELSE /\ results[n].Scored
                         /\ ~(auditWarn /\ ActionIsAudit(OutcomePolicy(o)))
                            => results[n].Result = "fail"

C2_Witness ==
    /\ rpc = "built"
    /\ ~auditWarn
    /\ \E o \in OutcomeIds :
         /\ OutcomeIsValidation(o)
         /\ OutcomeStatus(o) = "fail"
         /\ ScoredAnnotationIsFalse(OutcomePolicy(o))
         /\ ~ActionIsAudit(OutcomePolicy(o))
         /\ \E n \in ResultsFor(o) : results[n].Result = "warn"
    /\ \E o \in OutcomeIds :
         /\ OutcomeIsValidation(o)
         /\ OutcomeStatus(o) = "fail"
         /\ OutcomePolicy(o).Annotations = {}
         /\ \E n \in ResultsFor(o) : results[n].Result = "fail"

\* C3: the returned collection holds no entry for the (policy, rule, resource) of
\* a rule outcome whose status is pass or skip, whatever the other outcomes are.
C3_PassSkipNotReported ==
    rpc = "built" =>
        \A o \in OutcomeIds :
            OutcomeStatus(o) \in {"pass", "skip"} => ResultsFor(o) = {}

C3_Witness ==
    /\ rpc = "built"
    /\ \E o \in OutcomeIds : OutcomeStatus(o) = "skip" /\ OutcomeIsValidation(o)
    /\ \E o \in OutcomeIds : OutcomeStatus(o) = "fail" /\ ResultsFor(o) # {}

\* C4: a validation rule outcome whose status is none of pass, skip, error, fail,
\* warn yields exactly one result, and that result has status error (it is
\* neither dropped nor emitted with an empty status).
C4_UnknownStatusIsError ==
    rpc = "built" =>
        \A o \in OutcomeIds :
            (/\ OutcomeIsValidation(o)
             /\ OutcomeStatus(o) \notin {"pass", "skip", "error", "fail", "warn"})
            => /\ Cardinality(ResultsFor(o)) = 1
               /\ \A n \in ResultsFor(o) : results[n].Result = "error"

(***************************************************************************)
(* Properties of the apply pipeline (Spec)                                 *)
(***************************************************************************)
Queries == req.ResourceQueries
Paths == req.PolicyPaths
IsNamed(q) == q.Name # ""
IsValid(q) == q.APIVersion # EmptyString /\ q.Kind # EmptyString
\* no entry of the lookup table for the pair of a valid query
IsUnmapped(q) ==
    /\ IsValid(q)
    /\ ~\E m \in commonGVKtoGVR : m.key = q.APIVersion \o q.Kind
Returned == pc = "done"
LoadReturned == pc = "done" /\ loadRet.kind # "none"
IsFailure(r) == r.kind \in {"error", "toolError"}
IsSuccess(r) == r.kind \in {"response", "toolText", "resources"}
CallsOf(ops) == {k \in 1..Len(calls) : calls[k].op \in ops}
Identifies(err, q) ==
    /\ <<"apiVersion", q.APIVersion>> \in err.args
    /\ <<"kind", q.Kind>> \in err.args

\* C5: while Load processes a valid, mapped query with a name, the step either
\* adds exactly one resource for it or makes Load return an error; Load never
\* goes on, or succeeds, with zero resources for a named query.
C5_NamedQueryOneOrError ==
    [][ (/\ pc = "queries"
         /\ IsNamed(Queries[idx])
         /\ IsValid(Queries[idx])
         /\ ~IsUnmapped(Queries[idx]))
        => \/ Len(allResources') = Len(allResources) + 1
           \/ loadRet'.kind = "error" ]_vars

\* C6: with loaded policies and resolved resources, ApplyPolicies records exactly
\* one rule outcome per (resource, policy, rule) triple, in traversal order: the
\* number of outcomes is the number of resources times the number of rules of all
\* policies, and outcome (r, j) is that of resource r and of the j-th rule.
TotalRules == SumSeq([k \in 1..Len(allPolicies) |-> Len(allPolicies[k].Rules)])
RulesInOrder ==
    Flatten([k \in 1..Len(allPolicies) |->
                [i \in 1..Len(allPolicies[k].Rules) |->
                    [policy |-> allPolicies[k].Name,
                     rule |-> allPolicies[k].Rules[i].Name]]])
C6_OneOutcomePerTriple ==
    (/\ Returned
     /\ entry # "loader"
     /\ loadRet.kind = "resources"
     /\ Len(loadRet.Resources) > 0)
    => /\ IsSuccess(ret)
       /\ Len(ret.Results) = Len(loadRet.Resources) * TotalRules
       /\ \A r \in 1..Len(loadRet.Resources) : \A j \in 1..TotalRules :
            LET out == ret.Results[(r - 1) * TotalRules + j]
            IN  /\ out.Resource.Name = loadRet.Resources[r].name
                /\ out.Resource.Kind = loadRet.Resources[r].kind
                /\ out.Resource.Namespace = loadRet.Resources[r].namespace
                /\ out.Policy = RulesInOrder[j].policy
                /\ Len(out.Rules) = 1
                /\ out.Rules[1].Name = RulesInOrder[j].rule

C6_Witness ==
    /\ Returned
    /\ entry = "engine"
    /\ ret.kind = "response"
    /\ Len(loadRet.Resources) >= 2
    /\ Len(allPolicies) >= 2
    /\ Len(ret.Results) >= 6

\* every policy path was loaded and every resource query was resolved
AllPathsLoaded ==
    /\ Cardinality({k \in CallsOf({"policyLoad"}) : calls[k].outcome = "ok"}) = Len(Paths)
AllQueriesResolved ==
    \A i \in 1..Len(Queries) :
        \E k \in CallsOf({"get", "list"}) : calls[k].arg = i /\ calls[k].outcome = "ok"

\* C7: a response is produced only when every policy path was loaded and every
\* resource query was resolved; if one of them failed the call returns an error.
C7_NoPartialSets ==
    (Returned /\ entry # "loader")
    => /\ IsSuccess(ret) => AllPathsLoaded /\ AllQueriesResolved
       /\ ~(AllPathsLoaded /\ AllQueriesResolved) => IsFailure(ret)

ClientCreated == \E k \in CallsOf({"client"}) : calls[k].outcome = "ok"

\* C8 as stated: if a query of a Load call (whose dynamic client was created) is
\* unmapped, Load returns an error that identifies the apiVersion and kind of
\* that query, whatever its position, and no resources.
C8_UnmappedAlwaysIdentified ==
    (LoadReturned /\ ClientCreated) =>
        \A i \in 1..Len(Queries) :
            IsUnmapped(Queries[i])
            => /\ loadRet.kind = "error"
               /\ loadRet.Resources = <<>>
               /\ Identifies(loadRet.err, Queries[i])

\* the queries before query i were processed without an error
FirstToFail(i) ==
    /\ ClientCreated
    /\ \A j \in 1..(i - 1) :
         /\ IsValid(Queries[j]) /\ ~IsUnmapped(Queries[j])
         /\ \E k \in CallsOf({"get", "list"}) :
              calls[k].arg = j /\ calls[k].outcome # "error"

\* C8 (amended): if a query of a Load call is unmapped then, whatever its
\* position, Load returns an error and no resources; the error identifies the
\* apiVersion and kind of the unmapped query when it is the first query to fail.
C8_UnmappedFailsLoad ==
    LoadReturned =>
        \A i \in 1..Len(Queries) :
            IsUnmapped(Queries[i])
            => /\ loadRet.kind = "error"
               /\ loadRet.Resources = <<>>
               /\ FirstToFail(i)
                  => /\ Identifies(loadRet.err, Queries[i])
                     /\ <<"index", i - 1>> \in loadRet.err.args
                     /\ Mentions(loadRet.err, "failed to get GVR")

C8_Witness ==
    /\ LoadReturned
    /\ entry = "loader"
    /\ Len(Queries) = 2
    /\ ~IsUnmapped(Queries[1])
    /\ IsUnmapped(Queries[2])
    /\ FirstToFail(2)
    /\ Len(allResources) > 0
    /\ loadRet.kind = "error"
    /\ Identifies(loadRet.err, Queries[2])

EmptyRequest == Len(Paths) = 0 \/ Len(Queries) = 0

C10_ZeroPoliciesEmptySuccess ==
    (/\ Returned
     /\ entry # "loader"
     /\ Len(Paths) > 0
     /\ AllPathsLoaded
     /\ allPolicies = <<>>)
    => /\ IsSuccess(ret)
       /\ ret.Results = <<>>

\* C11: when at least one policy is loaded and the resource queries resolve to
\* zero resources, ApplyPolicies returns a successful response, without an
\* error, whose results and resources are both empty: no rule is evaluated.
C11_ZeroResourcesEmptySuccess ==
    (/\ Returned
     /\ entry # "loader"
     /\ Len(allPolicies) > 0
     /\ loadRet.kind = "resources"
     /\ Len(loadRet.Resources) = 0)
    => /\ IsSuccess(ret)
       /\ ret.err = Nil
       /\ ret.Results = <<>>
       /\ ret.Resources = <<>>

C11_Witness ==
    /\ Returned
    /\ entry = "engine"
    /\ TotalRules >= 2
    /\ CallsOf({"get"}) = {}
    /\ CallsOf({"list"}) # {}
    /\ loadRet.kind = "resources"
    /\ loadRet.Resources = <<>>
    /\ ret.kind = "response"
    /\ ret.Results = <<>>

\* C14: when no violation remains (no engine response, or every rule outcome
\* passed, was skipped or is not a validation outcome), the collection that
\* BuildPolicyReportResults returns has zero entries.
C14_NoViolationEmptyCollection ==
    (/\ rpc = "built"
     /\ \A o \in OutcomeIds :
          ~OutcomeIsValidation(o) \/ OutcomeStatus(o) \in {"pass", "skip"})
    => results = <<>>

(***************************************************************************)
(* pkg/common/common.go: ParseNamespaceExcludes.  A comma-separated string *)
(* is the sequence of its fields, a field the sequence of its tokens: a    *)
(* token is a space or a run of other characters.  "kube-system, kyverno"  *)
(* is << <<"kube-system">>, <<" ", "kyverno">> >>, and the empty string is *)
(* << <<>> >>: strings.Split gives one empty field.                        *)
(***************************************************************************)
Space == " "

RECURSIVE TrimLeft(_)
TrimLeft(f) == IF f # <<>> /\ Head(f) = Space THEN TrimLeft(Tail(f)) ELSE f

RECURSIVE TrimRight(_)
TrimRight(f) ==
    IF f # <<>> /\ f[Len(f)] = Space THEN TrimRight(SubSeq(f, 1, Len(f) - 1)) ELSE f

\* strings.TrimSpace
TrimSpace(f) == TrimRight(TrimLeft(f))

ParseNamespaceExcludesNoTrim(s) ==
    {s[k] : k \in 1..Len(s)} \ {<<>>}

\* common.go 21-29: the set of the trimmed, non-empty fields
ParseNamespaceExcludes(s) ==
    {TrimSpace(s[k]) : k \in 1..Len(s)} \ {<<>>}

\* the tokens of a namespace name, as a key of the set
NamespaceKey(ns) == IF ns = "" THEN <<>> ELSE <<ns>>

\* an argument the request does not carry, and the empty string
NilArg == <<>>
EmptyArg == << <<>> >>
\* "kube-system,kyverno"
DefaultNamespaceExclude == << <<"kube-system">>, <<"kyverno">> >>

(***************************************************************************)
(* pkg/tools: the apply_policies tool (applyPolicy and its handler)        *)
(***************************************************************************)
CallToolResultText(text, items) == [IsError |-> FALSE, Text |-> text, Items |-> items]
CallToolResultError(text) == [IsError |-> TRUE, Text |-> text, Items |-> <<>>]

FilterKeepsExcluded(responses, excludedNS) ==
    SelectSeq(responses, LAMBDA er : NamespaceKey(er.Resource.namespace) \in excludedNS)

\* list_contexts.go 161-167: the engine responses of namespaces not excluded
FilterEngineResponses(responses, excludedNS) ==
    SelectSeq(responses, LAMBDA er : NamespaceKey(er.Resource.namespace) \notin excludedNS)

applyPolicyAuditWarn(responses, namespaceExclude) ==
    BuildPolicyReportResults(TRUE,
        FilterEngineResponses(responses, ParseNamespaceExcludes(namespaceExclude)))

\* list_contexts.go 157-175: applyPolicy once ApplyCommandHelper returned
applyPolicy(responses, namespaceExclude) ==
    BuildPolicyReportResults(FALSE,
        FilterEngineResponses(responses, ParseNamespaceExcludes(namespaceExclude)))

\* list_contexts.go 210-213: the default of namespace_exclude
ApplyNamespaceExclude(a) ==
    IF a.namespace_exclude = NilArg THEN DefaultNamespaceExclude
    ELSE a.namespace_exclude

\* what can fail before the engine responses are there: the arguments, the
\* temporary policy file (create, write, close) and ApplyCommandHelper
ApplyFailures ==
    {"none", "Error: invalid arguments format", "failed to create temp policy file",
     "failed to apply policy"}

\* list_contexts.go 89-96: the embedded policy bundles, each a list of documents
podSecurityPolicy == <<"policies/pod-security.yaml">>
rbacBestPracticesPolicy == <<"policies/rbac-best-practices.yaml">>
kubernetesBestPracticesPolicy == <<"policies/kubernetes-best-practices.yaml">>

\* list_contexts.go 98-101: the three bundles joined by document separators
defaultPolicies ==
    podSecurityPolicy \o rbacBestPracticesPolicy \o kubernetesBestPracticesPolicy

\* list_contexts.go 105-115: the policy content selected by the key
SelectPolicyData(policyKey) ==
    IF policyKey = "pod-security" THEN podSecurityPolicy
    ELSE IF policyKey = "rbac-best-practices" THEN rbacBestPracticesPolicy
    ELSE IF policyKey = "kubernetes-best-practices" THEN kubernetesBestPracticesPolicy
    ELSE defaultPolicies

\* list_contexts.go 195-198: the default of policySets; a given argument is a
\* one-element sequence holding the string
ApplyPolicySets(a) == IF a.policySets = NilArg THEN "all" ELSE a.policySets[1]

\* list_contexts.go 189-221 with applyPolicy (102-176)
ApplyPoliciesTool ==
    /\ tool = "apply_policies" /\ tpc = "start"
    /\ \E failure \in ApplyFailures :
         /\ toolEnv' = failure
         /\ policyData' = IF failure \in {"none", "failed to apply policy"}
                          THEN SelectPolicyData(ApplyPolicySets(toolArgs))
                          ELSE policyData
         /\ IF failure # "none"
            THEN /\ results' = results
                 /\ toolOut' = CallToolResultError(failure)
            ELSE /\ results' = applyPolicy(engineResponses,
                                           ApplyNamespaceExclude(toolArgs))
                 /\ toolOut' = CallToolResultText("json", results')
    /\ tpc' = "done"
    /\ UNCHANGED <<tool, toolArgs, cluster, auditWarn, engineResponses, revision, rpc>>
    /\ UNCHANGED pipeVars
    /\ UNCHANGED localVars
    /\ UNCHANGED contextVars

(***************************************************************************)
(* pkg/tools/show_violations.go                                            *)
(***************************************************************************)
errNoPolicyReportCRD == "no PolicyReport CRD found"
kyvernoHelmInstructions == "Kyverno is not installed in the cluster."
PolicyReportGroup == "wgpolicyk8s.io"

\* the versions of the groups named wgpolicyk8s.io, in discovery order
RECURSIVE GroupVersions(_)
GroupVersions(groups) ==
    IF groups = <<>> THEN <<>>
    ELSE (IF Head(groups).Name = PolicyReportGroup THEN Head(groups).Versions ELSE <<>>)
         \o GroupVersions(Tail(groups))

\* show_violations.go 172-189: the first version whose resource list is
\* served and holds policyreports; a version whose resource list cannot be
\* fetched is passed over
RECURSIVE FindPolicyReports(_, _)
FindPolicyReports(versions, failed) ==
    IF versions = <<>> THEN [err |-> errNoPolicyReportCRD, Version |-> ""]
    ELSE IF Head(versions).Version \notin failed
            /\ "policyreports" \in Head(versions).Resources
    THEN [err |-> "", Version |-> Head(versions).Version]
    ELSE FindPolicyReports(Tail(versions), failed)

\* show_violations.go 165-191
policyReportGVRs(groups, groupsOk, failed) ==
    IF ~groupsOk THEN [err |-> "ServerGroups failed", Version |-> ""]
    ELSE FindPolicyReports(GroupVersions(groups), failed)

IsViolation(result) == result.Result \in {"fail", "error", "warn"}

AddResultsIgnoresSummary(items, excludeSet) ==
    Flatten([k \in 1..Len(items) |->
        IF NamespaceKey(items[k].namespace) \in excludeSet THEN <<>>
        ELSE SelectSeq(items[k].Results, IsViolation)])

\* show_violations.go 93-128: addResults
addResults(items, excludeSet) ==
    Flatten([k \in 1..Len(items) |->
        IF NamespaceKey(items[k].namespace) \in excludeSet THEN <<>>
        ELSE IF items[k].Summary.Fail = 0 /\ items[k].Summary.Error = 0 THEN <<>>
        ELSE SelectSeq(items[k].Results, IsViolation)])

\* dyn.Resource(polrGVR).Namespace(ns).List and dyn.Resource(cpolrGVR).List
ListPolicyReports(reports, ns) ==
    SelectSeq(reports, LAMBDA r : r.kind = "PolicyReport" /\ r.namespace = ns)
ListClusterPolicyReports(reports) ==
    SelectSeq(reports, LAMBDA r : r.kind = "ClusterPolicyReport")

\* the versions whose resource lists policyReportGVRs fetches: those up to
\* the first one that holds policyreports
RECURSIVE FetchedVersions(_)
FetchedVersions(versions) ==
    IF versions = <<>> THEN {}
    ELSE IF "policyreports" \in Head(versions).Resources THEN {Head(versions).Version}
    ELSE {Head(versions).Version} \cup FetchedVersions(Tail(versions))

\* the cluster serves the PolicyReport capability
Serves(groups) ==
    \E k \in 1..Len(GroupVersions(groups)) :
        "policyreports" \in GroupVersions(groups)[k].Resources

\* the call that fails in one run of the tool, if any, among the calls the
\* run issues: a failed ServerResourcesForGroupVersion is named by its version
ViolationFailures(c) ==
    {"none", "build kube-config", "discovery client", "ServerGroups failed"}
    \cup FetchedVersions(GroupVersions(c.groups))
    \cup (IF Serves(c.groups)
          THEN {"dynamic client", "list policyreports", "list clusterpolicyreports"}
          ELSE {})

\* show_violations.go 88-157: the results of the two lists; a list that
\* fails is logged and contributes nothing
violationResults(ns, excludeSet, c, failure) ==
    (IF failure = "list policyreports" THEN <<>>
     ELSE addResults(ListPolicyReports(c.reports, ns), excludeSet))
    \o
    (IF failure = "list clusterpolicyreports" THEN <<>>
     ELSE addResults(ListClusterPolicyReports(c.reports), excludeSet))

\* show_violations.go 62-162: gatherViolationsJSON
gatherViolationsJSON(ns, nsExclude, c, failure) ==
    LET gvrs == policyReportGVRs(c.groups, failure # "ServerGroups failed", {failure})
    IN  IF failure \in {"build kube-config", "discovery client"}
        THEN [err |-> failure, results |-> <<>>]
        ELSE IF gvrs.err # "" THEN [err |-> gvrs.err, results |-> <<>>]
        ELSE IF failure = "dynamic client" THEN [err |-> failure, results |-> <<>>]
        ELSE [err |-> "",
              results |-> violationResults(ns, ParseNamespaceExcludes(nsExclude),
                                           c, failure)]

\* common.go 12-18: the in-cluster configuration, else the current context of
\* the file ~/.kube/config
KubeConfig(incl, files) ==
    IF incl THEN "in-cluster" ELSE files[RecommendedHomeFile].CurrentContext

\* show_violations.go 36-44: the defaults of the arguments
ViolationsNamespace(a) == IF a.namespace = "" THEN "default" ELSE a.namespace
ViolationsNamespaceExcludeNilOnly(a) ==
    IF a.namespace_exclude = NilArg THEN DefaultNamespaceExclude
    ELSE a.namespace_exclude

\* show_violations.go 41-44: the default of namespace_exclude
ViolationsNamespaceExclude(a) ==
    IF a.namespace_exclude \in {NilArg, EmptyArg} THEN DefaultNamespaceExclude
    ELSE a.namespace_exclude

\* show_violations.go 46-55: the result of the handler
ViolationsResult(r) ==
    IF r.err # ""
    THEN IF r.err = errNoPolicyReportCRD
         THEN CallToolResultText(kyvernoHelmInstructions, <<>>)
         ELSE CallToolResultError(r.err)
    ELSE CallToolResultText("json", r.results)

\* show_violations.go 35-56
ShowViolations ==
    /\ tool = "show_violations" /\ tpc = "start"
    /\ \E failure \in ViolationFailures(cluster) :
         LET r == gatherViolationsJSON(ViolationsNamespace(toolArgs),
                                       ViolationsNamespaceExclude(toolArgs),
                                       cluster, failure)
         IN  /\ toolEnv' = failure
             /\ results' = r.results
             /\ toolOut' = ViolationsResult(r)
             /\ target' = IF failure = "build kube-config" THEN target
                          ELSE KubeConfig(inCluster, kubeconfigs)
    /\ tpc' = "done"
    /\ UNCHANGED <<tool, toolArgs, cluster, auditWarn, engineResponses, revision, rpc>>
    /\ UNCHANGED policyData
    /\ UNCHANGED <<kubeconfigPath, inCluster, kubeconfigs, switches>>
    /\ UNCHANGED pipeVars
    /\ UNCHANGED localVars

\* cmd/main.go 106-110: KUBECONFIG is set to the value of --kubeconfig
EnvKubeconfig(flag) == flag

\* switch_context.go 33: clientcmd.NewDefaultPathOptions reads and writes the
\* file KUBECONFIG names, and ~/.kube/config when KUBECONFIG is not set
StartingFile(flag) ==
    IF EnvKubeconfig(flag) # "" THEN EnvKubeconfig(flag) ELSE RecommendedHomeFile

\* switch_context.go 35-55: what can fail around the lookup of the context
SwitchFailures == {"none", "Error loading kubeconfig", "Error writing kubeconfig"}

\* switch_context.go 24-57
SwitchContextResult(contextName, cfg, failure) ==
    IF failure = "Error loading kubeconfig" THEN CallToolResultError(failure)
    ELSE IF contextName \notin cfg.Contexts
    THEN CallToolResultError("Context not found")
    ELSE IF failure = "Error writing kubeconfig" THEN CallToolResultError(failure)
    ELSE CallToolResultText("Switched to context", <<>>)

\* switch_context.go 24-57: one switch_context call, served before the
\* show_violations call
SwitchContext ==
    /\ tpc = "start"
    /\ Len(switches) < MaxSwitches
    /\ \E contextName \in ContextNames \cup {"missing"} : \E failure \in SwitchFailures :
         LET file   == StartingFile(kubeconfigPath)
             result == SwitchContextResult(contextName, kubeconfigs[file], failure)
         IN  /\ kubeconfigs' = IF result.IsError THEN kubeconfigs
                               ELSE [kubeconfigs EXCEPT ![file].CurrentContext = contextName]
             /\ switches' = Append(switches, [context |-> contextName, result |-> result])
    /\ UNCHANGED <<kubeconfigPath, inCluster, target>>
    /\ UNCHANGED pipeVars
    /\ UNCHANGED reportVars
    /\ UNCHANGED toolVars
    /\ UNCHANGED localVars

(***************************************************************************)
(* Tool calls: the arguments, the scan results and the clusters            *)
(***************************************************************************)
NamespaceNames == {"default", "kube-system"}

ExcludeFields ==
    {<<>>, <<Space>>, <<"kube", Space, "system">>}
    \cup {<<n>> : n \in NamespaceNames}
    \cup {<<Space, n>> : n \in NamespaceNames}
    \cup {<<n, Space>> : n \in NamespaceNames}

ExcludeStrings(n) == UNION {[1..k -> ExcludeFields] : k \in 1..n}

\* the resources of a scan: two namespaced ones and a cluster-scoped one
ScannedResources ==
    { ClusterObjects[1], ClusterObjects[3],
      Object(GVR("", "v1", "namespaces"), "", "prod", "", <<"v1">>, <<"Namespace">>) }

ScanResponse(k, h) ==
    [PolicyName |-> PolicyNames[k], Annotations |-> {},
     ValidationFailureAction |-> "Audit", Resource |-> h.Resource,
     Rules |-> <<RuleResponse(1, [RuleType |-> "Validation", Status |-> h.Status])>>]

ScanHeaders == [Resource : ScannedResources, Status : {"fail", "pass"}]

\* the policy reports of a cluster; the summary counts are those of the results
CountOf(statuses, st) == Cardinality({i \in 1..Len(statuses) : statuses[i] = st})
ResultLists ==
    {<<>>, <<"pass">>, <<"warn">>, <<"fail">>, <<"error", "skip">>, <<"warn", "fail">>}
ReportScopes ==
    { [kind |-> "PolicyReport", namespace |-> "default"],
      [kind |-> "PolicyReport", namespace |-> "kube-system"],
      [kind |-> "ClusterPolicyReport", namespace |-> ""] }
Report(k, h) ==
    [kind |-> h.scope.kind, namespace |-> h.scope.namespace, name |-> PolicyNames[k],
     Summary |-> [Pass |-> CountOf(h.statuses, "pass"), Fail |-> CountOf(h.statuses, "fail"),
                  Warn |-> CountOf(h.statuses, "warn"), Error |-> CountOf(h.statuses, "error"),
                  Skip |-> CountOf(h.statuses, "skip")],
     Results |-> [i \in 1..Len(h.statuses) |->
                     [Policy |-> PolicyNames[k], Rule |-> RuleNames[i],
                      Result |-> h.statuses[i]]]]
ReportHeaders == [scope : ReportScopes, statuses : ResultLists]

DiscoveryGroup(name, versions) == [Name |-> name, Versions |-> versions]
GroupVersion(version, resources) == [Version |-> version, Resources |-> resources]
CoreGroups == << DiscoveryGroup("apps", <<GroupVersion("v1", {"deployments"})>>) >>
ReportResources == {"policyreports", "clusterpolicyreports"}
DiscoveryFixtures ==
    { CoreGroups,
      CoreGroups \o << DiscoveryGroup(PolicyReportGroup,
                          <<GroupVersion("v1beta1", {"otherreports"})>>) >>,
      CoreGroups \o << DiscoveryGroup(PolicyReportGroup,
                          <<GroupVersion("v1alpha2", ReportResources)>>) >>,
      CoreGroups \o << DiscoveryGroup(PolicyReportGroup,
                          <<GroupVersion("v1beta1", {"otherreports"}),
                            GroupVersion("v1alpha2", ReportResources)>>) >> }

ViolationExcludes ==
    { NilArg, EmptyArg, << <<Space>>, <<>> >>, << <<"default">> >>,
      << <<"default">>, <<Space, "kube-system">> >> }

InitTools ==
    /\ PipeIdle
    /\ auditWarn = FALSE
    /\ revision = "cli"
    /\ rpc = "idle"
    /\ results = <<>>
    /\ tool \in {"apply_policies", "show_violations"}
    /\ tpc = "start"
    /\ toolEnv = ""
    /\ toolOut = NoResult
    /\ policyData = <<>>
    /\ LocalIdle
    /\ ContextIdle
    /\ IF tool = "apply_policies"
       THEN /\ toolArgs \in [policySets : {NilArg}, namespace : {""},
                             namespace_exclude : {NilArg} \cup ExcludeStrings(MaxFields)]
            /\ \E n \in 0..MaxResponses : \E hs \in [1..n -> ScanHeaders] :
                 engineResponses = [k \in 1..n |-> ScanResponse(k, hs[k])]
            /\ cluster = NoCluster
       ELSE /\ toolArgs \in [policySets : {NilArg}, namespace : {"", "kube-system"},
                             namespace_exclude : ViolationExcludes]
            /\ engineResponses = <<>>
            /\ \E groups \in DiscoveryFixtures :
                 \E n \in 0..(IF Serves(groups) THEN MaxReports ELSE 0) :
                   \E hs \in [1..n -> ReportHeaders] :
                     cluster = [groups |-> groups,
                                reports |-> [k \in 1..n |-> Report(k, hs[k])]]

NextTools ==
    \/ ApplyPoliciesTool
    \/ ShowViolations

SpecTools == InitTools /\ [][NextTools]_vars

(***************************************************************************)
(* switch_context calls followed by a show_violations call                 *)
(***************************************************************************)
InitContext ==
    /\ PipeIdle
    /\ auditWarn = FALSE
    /\ revision = "cli"
    /\ rpc = "idle"
    /\ results = <<>>
    /\ LocalIdle
    /\ engineResponses = <<>>
    /\ tool = "show_violations"
    /\ toolArgs = [policySets |-> NilArg, namespace |-> "", namespace_exclude |-> NilArg]
    /\ cluster \in {[groups |-> groups, reports |-> <<>>] : groups \in DiscoveryFixtures}
    /\ tpc = "start"
    /\ toolEnv = ""
    /\ toolOut = NoResult
    /\ policyData = <<>>
    /\ kubeconfigPath \in KubeconfigFlags
    /\ inCluster \in BOOLEAN
    /\ kubeconfigs \in [KubeconfigFiles -> {Kubeconfig(c) : c \in ContextNames}]
    /\ switches = <<>>
    /\ target = ""

NextContext ==
    \/ SwitchContext
    \/ ShowViolations

SpecContext == InitContext /\ [][NextContext]_vars

(***************************************************************************)
(* apply_policies called with a policySets argument, on scans whose engine *)
(* responses differ in annotations, failure action, rule type and status   *)
(***************************************************************************)
\* README.md 322: the keys of the bundles, a file path, a Git repository URL
PolicySetValues ==
    {"pod-security", "rbac-best-practices", "kubernetes-best-practices", "all",
     "/policies/custom.yaml", "https://github.com/org/policies.git"}

ScanResponseOf(k, h) ==
    [PolicyName |-> PolicyNames[k], Annotations |-> h.Annotations,
     ValidationFailureAction |-> h.ValidationFailureAction,
     Resource |-> ClusterObjects[1],
     Rules |-> <<RuleResponse(1, h.Rule)>>]
ScanHeadersOf ==
    [Annotations : AnnotationSets, ValidationFailureAction : {"Audit", "Enforce"},
     Rule : RuleResponses]

InitScan ==
    /\ PipeIdle
    /\ auditWarn = FALSE
    /\ revision = "cli"
    /\ rpc = "idle"
    /\ results = <<>>
    /\ LocalIdle
    /\ ContextIdle
    /\ tool = "apply_policies"
    /\ cluster = NoCluster
    /\ tpc = "start"
    /\ toolEnv = ""
    /\ toolOut = NoResult
    /\ policyData = <<>>
    /\ \/ /\ toolArgs \in [policySets : {NilArg} \cup {<<v>> : v \in PolicySetValues},
                            namespace : {""}, namespace_exclude : {NilArg}]
          /\ engineResponses \in {<<>>, <<ScanResponse(1, [Resource |-> ClusterObjects[1],
                                                          Status |-> "fail"])>>}
       \/ /\ toolArgs = [policySets |-> NilArg, namespace |-> "",
                          namespace_exclude |-> NilArg]
          /\ \E n \in 1..MaxResponses : \E hs \in [1..n -> ScanHeadersOf] :
               engineResponses = [k \in 1..n |-> ScanResponseOf(k, hs[k])]

NextScan == ApplyPoliciesTool

SpecScan == InitScan /\ [][NextScan]_vars

(***************************************************************************)
(* Properties of the tools (SpecTools)                                     *)
(***************************************************************************)
ApplyReturned == tool = "apply_policies" /\ tpc = "done" /\ ~toolOut.IsError
ViolationsReturned ==
    tool = "show_violations" /\ tpc = "done" /\ ~toolOut.IsError /\ toolOut.Text = "json"
Guidance == ~toolOut.IsError /\ toolOut.Text = kyvernoHelmInstructions

\* the field is the name ns with spaces before and after it
FieldNames(field, ns) ==
    \E i \in 1..Len(field) :
        /\ field[i] = ns
        /\ \A j \in 1..Len(field) : j # i => field[j] = Space
\* the namespace_exclude string of the call names the namespace ns
ExcludedByArg(excl, ns) == \E k \in 1..Len(excl) : FieldNames(excl[k], ns)

\* the entries that refer to a resource (the others are placeholders)
Referring(rs) == SelectSeq(rs, LAMBDA r : r.Resources # <<>>)

\* C12: apply_policies filters the engine responses by the namespace of their
\* resource before BuildPolicyReportResults: no returned result refers to a
\* resource of a namespace that the exclusion argument names, and the returned
\* results are all the results of the unfiltered responses whose resource is
\* in another namespace, in the same order.
C12_ExcludedNamespacesFiltered ==
    ApplyReturned =>
        LET excl == ApplyNamespaceExclude(toolArgs)
            kept(r) == ~ExcludedByArg(excl, r.Resources[1].Namespace)
        IN  /\ \A n \in 1..Len(results) : \A i \in 1..Len(results[n].Resources) :
                 ~ExcludedByArg(excl, results[n].Resources[i].Namespace)
            /\ Referring(results)
                 = SelectSeq(Referring(BuildPolicyReportResults(FALSE, engineResponses)),
                             kept)

C12_Witness ==
    /\ ApplyReturned
    /\ toolArgs.namespace_exclude = << <<Space, "kube-system">>, <<>> >>
    /\ Len(engineResponses) = 2
    /\ engineResponses[1].Resource.namespace = "kube-system"
    /\ engineResponses[1].Rules[1].Status = "fail"
    /\ engineResponses[2].Resource.namespace = "default"
    /\ Len(results) = 1
    /\ results[1].Resources[1].Namespace = "default"

\* the exclusion sets that hold the one of the call
ExcludeKeys == {<<"default">>, <<"kube-system">>, <<"kyverno">>, <<"kube", Space, "system">>}
Supersets(A) == {B \in SUBSET ExcludeKeys : A \subseteq B}

\* C13: for the same engine responses (apply_policies) or the same policy
\* reports (show_violations), a call with an exclusion set that contains the
\* one of this call returns at most as many results as this call.
C13_ExclusionMonotonic ==
    /\ ApplyReturned =>
         \A B \in Supersets(ParseNamespaceExcludes(ApplyNamespaceExclude(toolArgs))) :
             Len(BuildPolicyReportResults(FALSE, FilterEngineResponses(engineResponses, B)))
                 <= Len(results)
    /\ ViolationsReturned =>
         \A B \in Supersets(ParseNamespaceExcludes(ViolationsNamespaceExclude(toolArgs))) :
             Len(violationResults(ViolationsNamespace(toolArgs), B, cluster, toolEnv))
                 <= Len(results)

C13_Witness ==
    /\ ApplyReturned
    /\ ParseNamespaceExcludes(ApplyNamespaceExclude(toolArgs)) = {<<"default">>}
    /\ Len(results) = 1
    /\ results[1].Resources # <<>>
    /\ results[1].Resources[1].Namespace = "kube-system"
    /\ \E k \in 1..Len(engineResponses) :
         /\ engineResponses[k].Resource.namespace = "default"
         /\ engineResponses[k].Rules[1].Status = "fail"

\* C15: show_violations returns a result of a policy report if and only if its
\* status is fail, error or warn, for every result of every PolicyReport of the
\* requested namespace that is not excluded and of every ClusterPolicyReport,
\* whatever the summary counts of the report.
C15_ViolationsIncluded ==
    (ViolationsReturned /\ toolEnv = "none") =>
        \A k \in 1..Len(cluster.reports) :
            LET report == cluster.reports[k]
                excludeSet == ParseNamespaceExcludes(ViolationsNamespaceExclude(toolArgs))
            IN  (/\ NamespaceKey(report.namespace) \notin excludeSet
                 /\ \/ report.kind = "ClusterPolicyReport"
                    \/ report.namespace = ViolationsNamespace(toolArgs))
                => \A i \in 1..Len(report.Results) :
                     (\E n \in 1..Len(results) : results[n] = report.Results[i])
                     <=> report.Results[i].Result \in {"fail", "error", "warn"}

\* C16: show_violations returns the installation guidance, as a text result
\* that is not an error, exactly when the cluster does not serve policyreports
\* in group wgpolicyk8s.io; when a discovery or API call of the run fails, the
\* result is an error result, never the guidance.
C16_GuidanceIffNoCapability ==
    (tool = "show_violations" /\ tpc = "done") =>
        /\ toolEnv = "none" => (Guidance <=> ~Serves(cluster.groups))
        /\ toolEnv # "none" => toolOut.IsError

\* C17: when the request carries a non-empty kubeconfigPath, ApplyPolicies has
\* the resources loaded with it; the server's default kubeconfig path is given
\* to the resource loader only when the request's kubeconfigPath is empty.
C17_RequestKubeconfigWins ==
    (Returned /\ entry # "loader") =>
        \A k \in CallsOf({"client"}) :
            calls[k].arg = IF req.KubeconfigPath # "" THEN req.KubeconfigPath
                           ELSE serverKubeconfigPath

(***************************************************************************)
(* pkg/kyverno/resource_loader.go: LocalPolicyLoader.  A YAML document is  *)
(* what yaml.Unmarshal reads from it: whether it parses, its apiVersion,   *)
(* kind, metadata.name, spec.rules and items.                              *)
(***************************************************************************)
Document(apiVersion, kind, name, rules, items) ==
    [valid |-> TRUE, apiVersion |-> apiVersion, kind |-> kind, name |-> name,
     rules |-> rules, items |-> items]
\* a file that is not YAML
Malformed ==
    [valid |-> FALSE, apiVersion |-> "", kind |-> "", name |-> "", rules |-> <<>>,
     items |-> <<>>]

\* yaml.Unmarshal(data, &policy) into a kyvernov1.ClusterPolicy: the fields of
\* the document that the type has; items is not one of them
UnmarshalClusterPolicy(doc) ==
    [err |-> ~doc.valid,
     policy |-> [APIVersion |-> doc.apiVersion, Kind |-> doc.kind, Name |-> doc.name,
                 Rules |-> doc.rules]]

\* yaml.Unmarshal(data, &policyList) into a kyvernov1.ClusterPolicyList
UnmarshalClusterPolicyList(doc) ==
    [err |-> ~doc.valid,
     Items |-> [k \in 1..Len(doc.items) |-> UnmarshalClusterPolicy(doc.items[k]).policy]]

\* resource_loader.go 210-246: os.Stat, os.ReadFile (which fails on a
\* directory), then the document as one policy, then as a list of policies
LocalLoad(file) ==
    IF file.type = "missing"
    THEN [policies |-> <<>>,
          err |-> Errorf("policy file does not exist", {<<"path", file.path>>})]
    ELSE IF file.type = "dir"
    THEN [policies |-> <<>>,
          err |-> Errorf("failed to read policy file", {<<"path", file.path>>})]
    ELSE LET single == UnmarshalClusterPolicy(file.doc)
             list == UnmarshalClusterPolicyList(file.doc)
         IN  IF ~single.err /\ single.policy.APIVersion # ""
             THEN [policies |-> <<single.policy>>, err |-> Nil]
             ELSE IF ~list.err /\ Len(list.Items) > 0
             THEN [policies |-> list.Items, err |-> Nil]
             ELSE [policies |-> <<>>,
                   err |-> Errorf("failed to parse policy file", {<<"path", file.path>>})]

\* the policy documents: cluster-wide and namespaced policies
RuleLists ==
    { <<>>,
      <<Rule("check-labels", TRUE, FALSE, FALSE)>>,
      <<Rule("check-labels", TRUE, FALSE, FALSE), Rule("add-labels", FALSE, TRUE, FALSE)>> }
PolicyDocuments ==
    { Document("kyverno.io/v1", t[1], t[2], t[3], <<>>) :
        t \in {"ClusterPolicy", "Policy"} \X {"require-labels", "disallow-latest"} \X RuleLists }
\* the list documents: with or without an apiVersion of their own
ListDocuments(n) ==
    { Document(t[1], "ClusterPolicyList", "", <<>>, t[2]) :
        t \in {"", "kyverno.io/v1"} \X UNION {[1..k -> PolicyDocuments] : k \in 1..n} }
EmptyDocument == Document("", "", "", <<>>, <<>>)

FileNames == <<"policy1.yaml", "policy2.yaml", "policy3.yaml", "policy4.yaml">>
File(path, doc) == [path |-> path, type |-> "file", doc |-> doc, files |-> <<>>]
Directory(path, docs) ==
    [path |-> path, type |-> "dir", doc |-> EmptyDocument,
     files |-> [k \in 1..Len(docs) |-> File(FileNames[k], docs[k])]]
DirectoryDocuments ==
    { Malformed,
      Document("kyverno.io/v1", "ClusterPolicy", "require-labels",
               <<Rule("check-labels", TRUE, FALSE, FALSE)>>, <<>>),
      Document("kyverno.io/v1", "Policy", "disallow-latest", <<>>, <<>>) }

InitLocal ==
    /\ PipeIdle
    /\ ReportIdle
    /\ ToolIdle
    /\ ContextIdle
    /\ lpc = "start"
    /\ localRet = NoPolicies
    /\ \/ localFile = [NoFile EXCEPT !.path = "/non/existent/path"]
       \/ \E doc \in PolicyDocuments \cup ListDocuments(MaxItems)
                       \cup {Malformed, EmptyDocument} :
            localFile = File("policy.yaml", doc)
       \/ \E n \in 1..MaxFiles : \E docs \in [1..n -> DirectoryDocuments] :
            localFile = Directory("policies", docs)

LocalPolicyLoaderLoad ==
    /\ lpc = "start"
    /\ localRet' = LocalLoad(localFile)
    /\ lpc' = "done"
    /\ UNCHANGED localFile
    /\ UNCHANGED pipeVars
    /\ UNCHANGED reportVars
    /\ UNCHANGED toolVars
    /\ UNCHANGED contextVars

NextLocal == LocalPolicyLoaderLoad

SpecLocal == InitLocal /\ [][NextLocal]_vars

(***************************************************************************)
(* Properties of LocalPolicyLoader (SpecLocal)                             *)
(***************************************************************************)
\* the policy that a policy document holds
PolicyOf(doc) ==
    [APIVersion |-> doc.apiVersion, Kind |-> doc.kind, Name |-> doc.name,
     Rules |-> doc.rules]
IsPolicyDocument(doc) == doc.valid /\ doc.kind \in {"ClusterPolicy", "Policy"}
IsListDocument(doc) == doc.valid /\ doc.items # <<>>

\* C18: Load of a document holding a policy P alone and Load of a list document
\* whose single item is P return the same list: the one policy P, with its rules.
C18_SingleAndListAgree ==
    (lpc = "done" /\ localFile.type = "file") =>
        /\ IsPolicyDocument(localFile.doc)
           => localRet = [policies |-> <<PolicyOf(localFile.doc)>>, err |-> Nil]
        /\ (IsListDocument(localFile.doc) /\ Len(localFile.doc.items) = 1)
           => localRet = [policies |-> <<PolicyOf(localFile.doc.items[1])>>, err |-> Nil]

\* C19: Load of a directory returns the policies of all the files of the
\* directory, concatenated in order; if a file of the directory is malformed
\* the load fails with an error that names that file.
C19_DirectoryLoad ==
    (lpc = "done" /\ localFile.type = "dir") =>
        IF \E k \in 1..Len(localFile.files) : ~localFile.files[k].doc.valid
        THEN /\ IsErr(localRet.err)
             /\ \E k \in 1..Len(localFile.files) :
                  /\ ~localFile.files[k].doc.valid
                  /\ <<"path", localFile.files[k].path>> \in localRet.err.args
        ELSE /\ localRet.err = Nil
             /\ localRet.policies
                  = Flatten([k \in 1..Len(localFile.files) |->
                                LocalLoad(localFile.files[k]).policies])

\* the rules of the loaded policies, in traversal order
RuleRecords == Flatten([k \in 1..Len(allPolicies) |-> allPolicies[k].Rules])

\* C20: the rule type reported for a rule is validate if its validation block
\* is populated, otherwise mutate if its mutation block is populated, otherwise
\* generate if its generation block is populated: with several blocks
\* populated, the first of validate, mutate, generate.
C20_RuleTypePriority ==
    (Returned /\ entry # "loader" /\ IsSuccess(ret)) =>
        \A n \in 1..Len(ret.Results) :
            LET rule == RuleRecords[((n - 1) % TotalRules) + 1]
                type == ret.Results[n].Rules[1].Type
            IN  /\ ret.Results[n].Rules[1].Name = rule.Name
                /\ rule.Validation => type = "validate"
                /\ (~rule.Validation /\ rule.Mutation) => type = "mutate"
                /\ (~rule.Validation /\ ~rule.Mutation /\ rule.Generation)
                   => type = "generate"

C20_Witness ==
    /\ Returned
    /\ entry = "engine"
    /\ ret.kind = "response"
    /\ \E n \in 1..Len(ret.Results) :
         /\ ret.Results[n].Rules[1].Name = "all-blocks"
         /\ ret.Results[n].Rules[1].Type = "validate"
    /\ \E n \in 1..Len(ret.Results) :
         /\ ret.Results[n].Rules[1].Name = "mutate-generate"
         /\ ret.Results[n].Rules[1].Type = "mutate"
    /\ \E n \in 1..Len(ret.Results) :
         /\ ret.Results[n].Rules[1].Name = "gen-quota"
         /\ ret.Results[n].Rules[1].Type = "generate"

\* C21: on success Load returns the resources of the queries concatenated in
\* the order of the queries, each query's own order kept, and removes no
\* duplicate: a resource that two queries match is returned twice.
C21_ConcatenatedInQueryOrder ==
    (LoadReturned /\ loadRet.kind = "resources") =>
        loadRet.Resources
            = Flatten([i \in 1..Len(Queries) |->
                          processSingleQuery(Queries[i], TRUE).resources])

C21_Witness ==
    /\ LoadReturned
    /\ entry = "loader"
    /\ loadRet.kind = "resources"
    /\ Len(Queries) = 2
    /\ Queries[1] # Queries[2]
    /\ Len(loadRet.Resources) = 3
    /\ loadRet.Resources[1].name = "pod-1"
    /\ loadRet.Resources[2].name = "pod-2"
    /\ loadRet.Resources[3] = loadRet.Resources[1]

\* C22: the apply response holds exactly one PolicyApplicationResult for each
\* (resource, policy) pair, whose rule list holds the results of all the rules
\* of the policy for that resource.
C22_OneResultPerResourcePolicy ==
    (/\ Returned
     /\ entry # "loader"
     /\ IsSuccess(ret)
     /\ Len(loadRet.Resources) > 0)
    => /\ Len(ret.Results) = Len(loadRet.Resources) * Len(allPolicies)
       /\ \A r \in 1..Len(loadRet.Resources) : \A k \in 1..Len(allPolicies) :
            LET result == ret.Results[(r - 1) * Len(allPolicies) + k]
            IN  /\ result.Resource.Name = loadRet.Resources[r].name
                /\ result.Policy = allPolicies[k].Name
                /\ Len(result.Rules) = Len(allPolicies[k].Rules)
                /\ \A i \in 1..Len(result.Rules) :
                     result.Rules[i].Name = allPolicies[k].Rules[i].Name

\* C23: a call whose cancellation signal fired while resources were being
\* resolved or while the resource x policy x rule traversal was running returns
\* an error and no response carrying results.
C23_CancelledCallReturnsError ==
    (Returned /\ ctx = "cancelled") => IsFailure(ret)

\* C24: when a list of PolicyReports or of ClusterPolicyReports made by
\* show_violations fails, the result of the call is an error result; it is
\* never a success built from the list that did succeed.
C24_FailedListIsError ==
    (/\ tool = "show_violations"
     /\ tpc = "done"
     /\ toolEnv \in {"list policyreports", "list clusterpolicyreports"})
    => toolOut.IsError

\* C25: if a query of a Load call has an empty apiVersion, an empty kind or an
\* unmapped (apiVersion, kind), Load returns the error without having issued a
\* get or a list for any query of the call.
C25_ConfigurationErrorsPreFlight ==
    (/\ LoadReturned
     /\ \E i \in 1..Len(Queries) : ~IsValid(Queries[i]) \/ IsUnmapped(Queries[i]))
    => /\ IsFailure(loadRet)
       /\ CallsOf({"get", "list"}) = {}

\* the context of the last switch_context call that succeeded, if any
LastSwitched ==
    LET ok == {k \in 1..Len(switches) : ~switches[k].result.IsError}
    IN  IF ok = {} THEN ""
        ELSE switches[CHOOSE k \in ok : \A j \in ok : j <= k].context

\* C26: a show_violations call made after switch_context succeeded for context
\* c runs against c, whether or not the server was started with --kubeconfig;
\* a switch_context call naming a context absent from the kubeconfig returns an
\* error and leaves the current context unchanged.
C26_SwitchedContextIsUsed ==
    /\ \A k \in 1..Len(switches) :
         switches[k].context \notin ContextNames => switches[k].result.IsError
    /\ LastSwitched # "" =>
         kubeconfigs[StartingFile(kubeconfigPath)].CurrentContext = LastSwitched
    /\ (/\ tool = "show_violations"
        /\ tpc = "done"
        /\ toolEnv # "build kube-config"
        /\ LastSwitched # "") => target = LastSwitched

\* the policy content the policySets argument designates: a bundle for its
\* key, the three bundles for all or no argument, else the named source
Designated(a) ==
    IF a.policySets = NilArg \/ a.policySets = <<"all">> THEN defaultPolicies
    ELSE IF a.policySets = <<"pod-security">> THEN podSecurityPolicy
    ELSE IF a.policySets = <<"rbac-best-practices">> THEN rbacBestPracticesPolicy
    ELSE IF a.policySets = <<"kubernetes-best-practices">>
    THEN kubernetesBestPracticesPolicy
    ELSE a.policySets

\* C27: apply_policies applies the policy set policySets designates: the bundle
\* of a key, the three bundles for all and for no argument, and the policies
\* of the source when the value is a file path or a Git repository URL.
C27_DesignatedPolicySetApplied ==
    ApplyReturned => policyData = Designated(toolArgs)

\* C28: apply_policies classifies with auditWarn = false: in its output a
\* failing validation rule of a scored policy has status fail, also when the
\* failure action is audit, and every entry of status warn comes from a failing
\* rule of an unscored policy or from a rule response whose status is warn.
C28_ApplyNeverAuditWarns ==
    ApplyReturned =>
        /\ \A o \in OutcomeIds :
             (/\ OutcomeIsValidation(o)
              /\ OutcomeStatus(o) = "fail"
              /\ ~ScoredAnnotationIsFalse(OutcomePolicy(o)))
             => /\ ResultsFor(o) # {}
                /\ \A n \in ResultsFor(o) : results[n].Result = "fail"
        /\ \A n \in 1..Len(results) :
             results[n].Result = "warn" =>
                \E o \in OutcomeIds :
                    /\ n \in ResultsFor(o)
                    /\ OutcomeIsValidation(o)
                    /\ \/ OutcomeStatus(o) = "warn"
                       \/ /\ OutcomeStatus(o) = "fail"
                          /\ ScoredAnnotationIsFalse(OutcomePolicy(o))
C28_Witness ==
    /\ ApplyReturned
    /\ \E o \in OutcomeIds :
         /\ OutcomeIsValidation(o)
         /\ OutcomeStatus(o) = "fail"
         /\ OutcomePolicy(o).Annotations = {}
         /\ ActionIsAudit(OutcomePolicy(o))
         /\ \E n \in ResultsFor(o) : results[n].Result = "fail"
    /\ \E o \in OutcomeIds :
         /\ OutcomeStatus(o) = "fail"
         /\ ScoredAnnotationIsFalse(OutcomePolicy(o))
         /\ \E n \in ResultsFor(o) : results[n].Result = "warn"

\* the placeholder entry is what was returned
PlaceholderReturned == results = <<NoPoliciesApplied>>

\* C29: BuildPolicyReportResults emits a result only for rule responses of type
\* validation: a rule response of another type produces no result, whatever its
\* status; so, unless the placeholder entry is returned, there are at most as
\* many results as validation rule responses whose status is not pass or skip.
C29_OnlyValidationReported ==
    rpc = "built" =>
        /\ \A o \in OutcomeIds : ~OutcomeIsValidation(o) => ResultsFor(o) = {}
        /\ \/ PlaceholderReturned
           \/ Len(results) <= Cardinality({o \in OutcomeIds :
                                              /\ OutcomeIsValidation(o)
                                              /\ OutcomeStatus(o) \notin {"pass", "skip"}})
C29_Witness ==
    /\ rpc = "built"
    /\ ~PlaceholderReturned
    /\ \E o \in OutcomeIds :
         /\ ~OutcomeIsValidation(o)
         /\ OutcomeStatus(o) = "error"
         /\ ResultsFor(o) = {}
    /\ \E o \in OutcomeIds :
         /\ OutcomeIsValidation(o)
         /\ OutcomeStatus(o) = "fail"
         /\ Len(results) = 1
         /\ ResultsFor(o) = {1}

\* the results the returned call has with the exclusion set excludeSet
ResultsExcluding(excludeSet) ==
    violationResults(ViolationsNamespace(toolArgs), excludeSet, cluster, toolEnv)

\* the argument is given, not empty, and made only of separators and spaces
OnlyBlank(arg) ==
    /\ arg \notin {NilArg, EmptyArg}
    /\ \A k \in 1..Len(arg) : \A i \in 1..Len(arg[k]) : arg[k][i] = Space

\* an absent or empty namespace_exclude gives the results of kube-system,kyverno
DefaultExclusionReplaced ==
    toolArgs.namespace_exclude \in {NilArg, EmptyArg} =>
        results = ResultsExcluding({<<"kube-system">>, <<"kyverno">>})

\* the results of the ClusterPolicyReports are those an empty exclusion set gives
ClusterReportsKept ==
    toolEnv = "none" =>
        LET kept == addResults(ListClusterPolicyReports(cluster.reports), {})
        IN  /\ Len(kept) <= Len(results)
            /\ SubSeq(results, Len(results) - Len(kept) + 1, Len(results)) = kept

\* C30: in show_violations an absent or empty namespace_exclude is replaced by
\* kube-system,kyverno, so such a call returns the results of a call with
\* namespace_exclude = kube-system,kyverno and no call runs with an empty
\* exclusion set; a ClusterPolicyReport is never removed by an exclusion list.
C30_EmptyExclusionImpossible ==
    ViolationsReturned =>
        /\ DefaultExclusionReplaced
        /\ ParseNamespaceExcludes(ViolationsNamespaceExclude(toolArgs)) # {}
        /\ ClusterReportsKept

\* C30 (amended): in show_violations an absent or empty namespace_exclude is
\* replaced by kube-system,kyverno, so such a call returns the results of a
\* call with namespace_exclude = kube-system,kyverno; an argument made only of
\* separators and spaces is not replaced and the call runs with an empty
\* exclusion set; a ClusterPolicyReport is never removed by an exclusion list.
C30_DefaultExclusion ==
    ViolationsReturned =>
        /\ DefaultExclusionReplaced
        /\ OnlyBlank(toolArgs.namespace_exclude) => results = ResultsExcluding({})
        /\ ClusterReportsKept
C30_Witness ==
    /\ ViolationsReturned
    /\ toolEnv = "none"
    /\ toolArgs.namespace_exclude = EmptyArg
    /\ toolArgs.namespace = "kube-system"
    /\ results # ResultsExcluding({})
    /\ addResults(ListClusterPolicyReports(cluster.reports), {}) # <<>>

====
